---- MODULE Spec2Model ----
(***************************************************************************)
(* A model of the svy-io Python layer (python/svy_io): the labelled column *)
(* types of labelled.py, the tagged-missing helpers and the write_dta      *)
(* validation pipeline of stata.py, the user-missing hydration and the     *)
(* writer of spss.py, and the XPT writer of sas.py.                        *)
(*                                                                         *)
(* Python values are modelled as records [kind, v]: kind "num" for int and *)
(* float scalars (Python compares and hashes 1 and 1.0 alike, so one       *)
(* integer stands for both), kind "str" for text (v is the rank of the     *)
(* string in lexicographic order), kind "none" for None.  An optional      *)
(* argument is a sequence of length 0 (None) or 1 (the value).             *)
(***************************************************************************)
EXTENDS Integers, Sequences, FiniteSets, TLC

VARIABLES
    x,             \* labelled.py: the column an operation is called on (self)
    template,      \* labelled.py: the second operand (cast_to's template)
    result,        \* the outcome of the last operation: a return value or a raised exception
    df,            \* stata.py, spss.py, sas.py: the table (a sequence of columns)
    meta,          \* the metadata dictionary that travels with the table
    kwargs,        \* the arguments of the reader or writer call in progress
    native_calls,  \* the calls made to the native (svyreadstat_rs) writers, in order
    fs             \* the files of the call: the caller's target and write_dta's temporary file

vars == <<x, template, result, df, meta, kwargs, native_calls, fs>>

\* ------------------------------------------------------------------ bounds

MaxNum == 3
MaxStr == 2
MaxLen == 2

\* ------------------------------------------------------------ Python values

None == [kind |-> "none", v |-> 0]
Num(i) == [kind |-> "num", v |-> i]
Str(i) == [kind |-> "str", v |-> i]

NumVals == {Num(i) : i \in 1..MaxNum}
StrVals == {Str(i) : i \in 1..MaxStr}
Scalars == NumVals \cup StrVals

NoneOpt == <<>>
Some(v) == <<v>>
IsNone(o) == o = <<>>
Get(o) == o[1]

Range(s) == {s[i] : i \in 1..Len(s)}
SeqsUpTo(S, n) == UNION {[1..k -> S] : k \in 0..n}

LabelNames == {"Good", "Bad"}

\* ------------------------------------------------- labelled.py: type helpers

_is_numeric_scalar(v) == v.kind = "num"

_is_char_scalar(v) == v.kind = "str"

_is_numeric_seq(seq) == \A i \in 1..Len(seq) : _is_numeric_scalar(seq[i]) \/ seq[i] = None

_is_string_seq(seq) == \A i \in 1..Len(seq) : _is_char_scalar(seq[i]) \/ seq[i] = None

\* An outcome of a call: a returned value or a raised exception.
Ok(v) == [status |-> "ok", exc |-> "", msg |-> "", value |-> <<v>>]
Raise(e, m) == [status |-> "raise", exc |-> e, msg |-> m, value |-> <<>>]
NoResult ==
    [op |-> "", warnings |-> <<>>, status |-> "none", exc |-> "", msg |-> "", value |-> <<>>]

\* ------------------------------------------- labelled.py: label dictionaries

\* A label dictionary is a function from coded values to label strings.
Keys(d) == DOMAIN d

EmptyDict == <<>>

\* Dictionaries over a set of codes with at most n entries.
DictsOver(codes, n) ==
    UNION {[K -> LabelNames] : K \in {S \in SUBSET codes : Cardinality(S) <= n}}

\* Labelled.__post_init__ -> _validate_labels_match_data_type(values, labels):
\* "" when the dictionary passes, else the exception it raises.  The explicit
\* key-uniqueness check cannot fail on a dict and is left out.
_validate_labels_match_data_type(values, labels) ==
    IF IsNone(labels) THEN Ok(None)
    ELSE IF _is_numeric_seq(values) THEN
        IF \E k \in Keys(Get(labels)) : ~(_is_numeric_scalar(k) \/ k = None)
        THEN Raise("TypeError", "labels must be the same type as data (numeric)")
        ELSE IF \E k1, k2 \in Keys(Get(labels)) : k1 # k2 /\ Get(labels)[k1] = Get(labels)[k2]
        THEN Raise("ValueError", "labels must be unique")
        ELSE Ok(None)
    ELSE IF _is_string_seq(values) THEN
        IF \E k \in Keys(Get(labels)) : ~(_is_char_scalar(k) \/ k = None)
        THEN Raise("TypeError", "labels must be the same type as data (character)")
        ELSE IF \E k1, k2 \in Keys(Get(labels)) : k1 # k2 /\ Get(labels)[k1] = Get(labels)[k2]
        THEN Raise("ValueError", "labels must be unique")
        ELSE Ok(None)
    ELSE Raise("TypeError", "x must be a numeric or a character vector.")

\* _normalize_labels(labels): None becomes the empty dictionary, a dict is copied.
_normalize_labels(labels) == IF IsNone(labels) THEN EmptyDict ELSE Get(labels)

\* ------------------------------------------------ labelled.py: constructors

\* The arguments of labelled_spss(x, labels, na_values=, na_range=, label=).
Args(data, labels, label, na_values, na_range) ==
    [data |-> data, labels |-> labels, label |-> label,
     na_values |-> na_values, na_range |-> na_range]

\* A constructed column.  cls is the class of the instance.
Column(cls, data, labels, label, na_values, na_range) ==
    [cls |-> cls, data |-> data, labels |-> labels, label |-> label,
     na_values |-> na_values, na_range |-> na_range]

\* Labelled.__post_init__
Labelled_post_init(a) ==
    IF ~(_is_numeric_seq(a.data) \/ _is_string_seq(a.data))
    THEN Raise("TypeError", "x must be a numeric or a character vector.")
    ELSE LET chk == _validate_labels_match_data_type(a.data, a.labels) IN
         IF chk.status = "raise" THEN chk
         ELSE Ok(Column("Labelled", a.data, _normalize_labels(a.labels), a.label,
                        NoneOpt, NoneOpt))

\* LabelledSPSS.__post_init__: the na_values block.
na_values_check(a) ==
    IF IsNone(a.na_values) THEN Ok(None)
    ELSE IF None \in Range(Get(a.na_values))
    THEN Raise("ValueError", "na_values cannot contain missing values (None)")
    ELSE IF _is_numeric_seq(a.data) THEN
        IF \E v \in Range(Get(a.na_values)) : ~_is_numeric_scalar(v)
        THEN Raise("TypeError", "na_values must match data type (numeric)")
        ELSE Ok(None)
    ELSE IF \E v \in Range(Get(a.na_values)) : ~_is_char_scalar(v)
    THEN Raise("TypeError", "na_values must match data type (character)")
    ELSE Ok(None)

\* The na_range block with lo == hi let through.
na_range_check_allow_equal(a) ==
    IF IsNone(a.na_range) THEN Ok(None)
    ELSE LET r == Get(a.na_range) IN
    IF Len(r) # 2 THEN Raise("ValueError", "na_range must be a vector of length two")
    ELSE IF r[1] = None \/ r[2] = None
    THEN Raise("ValueError", "na_range cannot contain missing values (None)")
    ELSE IF _is_numeric_seq(a.data) /\ ~(_is_numeric_scalar(r[1]) /\ _is_numeric_scalar(r[2]))
    THEN Raise("TypeError", "na_range must match data type (numeric)")
    ELSE IF ~_is_numeric_seq(a.data) /\ ~(_is_char_scalar(r[1]) /\ _is_char_scalar(r[2]))
    THEN Raise("TypeError", "na_range must match data type (character)")
    ELSE IF ~(r[1].v <= r[2].v) THEN Raise("ValueError", "na_range must be in ascending order")
    ELSE Ok(None)

\* LabelledSPSS.__post_init__: the na_range block.
na_range_check(a) ==
    IF IsNone(a.na_range) THEN Ok(None)
    ELSE LET r == Get(a.na_range) IN
    IF Len(r) # 2 THEN Raise("ValueError", "na_range must be a vector of length two")
    ELSE IF r[1] = None \/ r[2] = None
    THEN Raise("ValueError", "na_range cannot contain missing values (None)")
    ELSE IF _is_numeric_seq(a.data) /\ ~(_is_numeric_scalar(r[1]) /\ _is_numeric_scalar(r[2]))
    THEN Raise("TypeError", "na_range must match data type (numeric)")
    ELSE IF ~_is_numeric_seq(a.data) /\ ~(_is_char_scalar(r[1]) /\ _is_char_scalar(r[2]))
    THEN Raise("TypeError", "na_range must match data type (character)")
    ELSE IF ~(r[1].v < r[2].v) THEN Raise("ValueError", "na_range must be in ascending order")
    ELSE Ok(None)

\* LabelledSPSS.__post_init__ (labelled_spss(...)): the column, or the first
\* exception raised.
LabelledSPSS_post_init(a) ==
    LET base == Labelled_post_init(a) IN
    IF base.status = "raise" THEN base
    ELSE IF na_values_check(a).status = "raise" THEN na_values_check(a)
    ELSE IF na_range_check(a).status = "raise" THEN na_range_check(a)
    ELSE Ok(Column("LabelledSPSS", a.data, _normalize_labels(a.labels), a.label,
                   a.na_values, a.na_range))

\* --------------------------------------------------- LabelledSPSS.is_na

\* Python truthiness of an optional list: None and [] are false.
Truthy(o) == ~IsNone(o) /\ Len(Get(o)) > 0

\* is_na with the range taken to exclude its upper bound.
is_na_open_hi(self) ==
    [i \in 1..Len(self.data) |->
        \/ self.data[i] = None
        \/ (~IsNone(self.na_values) /\ self.data[i] \in Range(Get(self.na_values)))
        \/ (~IsNone(self.na_range) /\ self.data[i] # None
              /\ Get(self.na_range)[1].v <= self.data[i].v
              /\ self.data[i].v < Get(self.na_range)[2].v)]

\* LabelledSPSS.is_na: one flag per element, in order.  The column is valid, so
\* lo, hi and the non-null elements are of one kind and the comparison is defined.
is_na(self) ==
    [i \in 1..Len(self.data) |->
        \/ self.data[i] = None
        \/ (~IsNone(self.na_values) /\ self.data[i] \in Range(Get(self.na_values)))
        \/ (~IsNone(self.na_range) /\ self.data[i] # None
              /\ Get(self.na_range)[1].v <= self.data[i].v
              /\ self.data[i].v <= Get(self.na_range)[2].v)]

\* --------------------------------------------------- LabelledSPSS.cast_to

\* is_missing_in with the range taken to exclude its upper bound.
is_missing_in_open_hi(val, na_values, na_range) ==
    IF val = None THEN "F"
    ELSE IF Truthy(na_values) /\ val \in Range(Get(na_values)) THEN "T"
    ELSE IF ~IsNone(na_range) THEN
        IF Get(na_range)[1].kind # val.kind THEN "TypeError"
        ELSE IF Get(na_range)[1].v <= val.v /\ val.v < Get(na_range)[2].v THEN "T"
        ELSE "F"
    ELSE "F"

\* cast_to's helper is_missing_in(val, na_values, na_range): "T", "F", or
\* "TypeError" when lo <= val compares a number with a string.
is_missing_in(val, na_values, na_range) ==
    IF val = None THEN "F"
    ELSE IF Truthy(na_values) /\ val \in Range(Get(na_values)) THEN "T"
    ELSE IF ~IsNone(na_range) THEN
        IF Get(na_range)[1].kind # val.kind THEN "TypeError"
        ELSE IF Get(na_range)[1].v <= val.v /\ val.v <= Get(na_range)[2].v THEN "T"
        ELSE "F"
    ELSE "F"

\* removed_labels with the set difference taken the wrong way round.
removed_labels_swapped(self, tmpl) == Keys(tmpl.labels) \ Keys(self.labels)

\* Step 1 of cast_to: the codes of the source dictionary that the template lacks.
removed_labels(self, tmpl) == Keys(self.labels) \ Keys(tmpl.labels)

\* Step 1 raises for the first element that is a removed code.
label_check_fails(self, tmpl) ==
    /\ Keys(self.labels) # {}
    /\ \E i \in 1..Len(self.data) : self.data[i] \in removed_labels(self, tmpl)

\* Step 2 for one element: "pass", "lossy" or "TypeError".
missing_check_at(self, tmpl, i) ==
    IF self.data[i] = None THEN "pass"
    ELSE LET source_missing == is_missing_in(self.data[i], self.na_values, self.na_range)
             target_missing == is_missing_in(self.data[i], tmpl.na_values, tmpl.na_range)
         IN IF source_missing = "TypeError" \/ target_missing = "TypeError" THEN "TypeError"
            ELSE IF source_missing = "T" /\ target_missing # "T" THEN "lossy"
            ELSE "pass"

\* The first element at which step 2 stops, 0 if it runs through.
first_missing_stop(self, tmpl) ==
    LET stops == {i \in 1..Len(self.data) : missing_check_at(self, tmpl, i) # "pass"} IN
    IF stops = {} THEN 0 ELSE CHOOSE i \in stops : \A j \in stops : i <= j

\* self.label or template.label
label_or(a, b) == IF IsNone(a) \/ Get(a) = "" THEN b ELSE a

\* LabelledSPSS.cast_to(self, template)
cast_to(self, tmpl) ==
    IF label_check_fails(self, tmpl)
    THEN Raise("ValueError", "Lossy cast: labeled in source but not in target")
    ELSE IF first_missing_stop(self, tmpl) # 0 THEN
        IF missing_check_at(self, tmpl, first_missing_stop(self, tmpl)) = "TypeError"
        THEN Raise("TypeError", "'<=' not supported between instances")
        ELSE Raise("ValueError", "Lossy cast: user-missing in source but not in target")
    ELSE LabelledSPSS_post_init(
            Args(self.data, Some(tmpl.labels), label_or(self.label, tmpl.label),
                 tmpl.na_values, tmpl.na_range))

\* ------------------------------------------------ merging dictionaries

\* _combine_labels preferring the right operand.
_combine_labels_rhs(x_labels, y_labels) ==
    IF Keys(y_labels) = {} THEN [labels |-> x_labels, conflicts |-> {}]
    ELSE IF Keys(x_labels) = {} THEN [labels |-> y_labels, conflicts |-> {}]
    ELSE [labels |-> y_labels,
          conflicts |-> {code \in Keys(x_labels) :
                            code \in Keys(y_labels) /\ y_labels[code] # x_labels[code]}]

\* labelled.py _combine_labels(x_labels, y_labels): the dictionary returned and
\* the codes listed in the "Conflicting labels" warning (no warning when empty).
_combine_labels(x_labels, y_labels) ==
    IF Keys(y_labels) = {} THEN [labels |-> x_labels, conflicts |-> {}]
    ELSE IF Keys(x_labels) = {} THEN [labels |-> y_labels, conflicts |-> {}]
    ELSE [labels |-> x_labels,
          conflicts |-> {code \in Keys(x_labels) :
                            code \in Keys(y_labels) /\ y_labels[code] # x_labels[code]}]

\* utils.py combine_labels(x_labels, y_labels): dict(y_labels) overlaid with x_labels.
combine_labels(x_labels, y_labels) ==
    IF Keys(x_labels) = {} THEN y_labels
    ELSE IF Keys(y_labels) = {} THEN x_labels
    ELSE [code \in Keys(y_labels) \cup Keys(x_labels) |->
            IF code \in Keys(x_labels) THEN x_labels[code] ELSE y_labels[code]]

\* The warnings an application of _combine_labels emits.
conflict_warnings(c) == IF c.conflicts = {} THEN <<>> ELSE <<"Conflicting labels">>

\* LabelledSPSS.concat: the loop over vectors[1:] that folds _combine_labels,
\* from operand i on; acc is [labels, warnings].
RECURSIVE combine_from(_, _, _)
combine_from(acc, vectors, i) ==
    IF i > Len(vectors) THEN acc
    ELSE IF vectors[i].cls = "LabelledSPSS" /\ Keys(vectors[i].labels) # {} THEN
        LET c == _combine_labels(acc.labels, vectors[i].labels) IN
        combine_from([labels |-> c.labels, warnings |-> acc.warnings \o conflict_warnings(c)],
                     vectors, i + 1)
    ELSE combine_from(acc, vectors, i + 1)

\* all_data of concat: the operands' data, in operand order.
RECURSIVE all_data(_)
all_data(vectors) ==
    IF vectors = <<>> THEN <<>> ELSE Head(vectors).data \o all_data(Tail(vectors))

\* A bare list given to concat as an operand.
BareList(data) == Column("list", data, EmptyDict, NoneOpt, NoneOpt, NoneOpt)

concat_range_ignored(vectors) ==
    IF vectors = <<>> THEN
        [warnings |-> <<>>,
         outcome |-> LabelledSPSS_post_init(Args(<<>>, NoneOpt, NoneOpt, NoneOpt, NoneOpt))]
    ELSE IF \E i \in 1..Len(vectors) : vectors[i].cls \notin {"LabelledSPSS", "list"} THEN
        [warnings |-> <<>>, outcome |-> Raise("TypeError", "Cannot concatenate")]
    ELSE LET made == IF vectors[1].cls = "LabelledSPSS" THEN Ok(vectors[1])
                     ELSE LabelledSPSS_post_init(
                            Args(vectors[1].data, NoneOpt, NoneOpt, NoneOpt, NoneOpt))
         IN IF made.status = "raise" THEN [warnings |-> <<>>, outcome |-> made]
    ELSE LET first == Get(made.value)
             comb == combine_from([labels |-> first.labels, warnings |-> <<>>], vectors, 2)
             na_values_match == \A i \in 1..Len(vectors) :
                 vectors[i].cls = "LabelledSPSS" => vectors[i].na_values = first.na_values
             na_range_match == TRUE
         IN [warnings |-> comb.warnings,
             outcome |->
                IF ~na_values_match \/ ~na_range_match
                THEN Labelled_post_init(
                        Args(all_data(vectors), Some(comb.labels), first.label, NoneOpt, NoneOpt))
                ELSE LabelledSPSS_post_init(
                        Args(all_data(vectors), Some(comb.labels), first.label,
                             first.na_values, first.na_range))]

\* LabelledSPSS.concat(vectors): [warnings, outcome].
concat(vectors) ==
    IF vectors = <<>> THEN
        [warnings |-> <<>>,
         outcome |-> LabelledSPSS_post_init(Args(<<>>, NoneOpt, NoneOpt, NoneOpt, NoneOpt))]
    ELSE IF \E i \in 1..Len(vectors) : vectors[i].cls \notin {"LabelledSPSS", "list"} THEN
        [warnings |-> <<>>, outcome |-> Raise("TypeError", "Cannot concatenate")]
    ELSE LET made == IF vectors[1].cls = "LabelledSPSS" THEN Ok(vectors[1])
                     ELSE LabelledSPSS_post_init(
                            Args(vectors[1].data, NoneOpt, NoneOpt, NoneOpt, NoneOpt))
         IN IF made.status = "raise" THEN [warnings |-> <<>>, outcome |-> made]
    ELSE LET first == Get(made.value)
             comb == combine_from([labels |-> first.labels, warnings |-> <<>>], vectors, 2)
             na_values_match == \A i \in 1..Len(vectors) :
                 vectors[i].cls = "LabelledSPSS" => vectors[i].na_values = first.na_values
             na_range_match == \A i \in 1..Len(vectors) :
                 vectors[i].cls = "LabelledSPSS" => vectors[i].na_range = first.na_range
         IN [warnings |-> comb.warnings,
             outcome |->
                IF ~na_values_match \/ ~na_range_match
                THEN Labelled_post_init(
                        Args(all_data(vectors), Some(comb.labels), first.label, NoneOpt, NoneOpt))
                ELSE LabelledSPSS_post_init(
                        Args(all_data(vectors), Some(comb.labels), first.label,
                             first.na_values, first.na_range))]

\* ------------------------------------------------ the columns of the model

NaValuesOver(S) == {NoneOpt} \cup {Some(l) : l \in SeqsUpTo(S, 1)}

NaRangesOver(S) == {NoneOpt} \cup {Some(<<lo, hi>>) : lo \in S, hi \in S}

\* c is a column labelled_spss() returns for data in datas and a dictionary and
\* a rule drawn from S.
IsColumnOver(c, S, datas) ==
    \E d \in datas, l \in DictsOver(S, 2), nv \in NaValuesOver(S), nr \in NaRangesOver(S) :
        LET made == LabelledSPSS_post_init(Args(d, Some(l), NoneOpt, nv, nr)) IN
        made.status = "ok" /\ c = Get(made.value)

\* Columns of numbers and columns of text with up to MaxLen elements.
IsSource(c) ==
    \/ IsColumnOver(c, NumVals, SeqsUpTo(NumVals \cup {None}, MaxLen))
    \/ IsColumnOver(c, StrVals, SeqsUpTo(StrVals \cup {None}, MaxLen) \ SeqsUpTo({None}, MaxLen))

\* Columns used for their metadata: no data (numeric) or one text element.
ColumnsOver(S, datas) ==
    LET made == { LabelledSPSS_post_init(Args(d, Some(l), NoneOpt, nv, nr)) :
                    d \in datas, l \in DictsOver(S, 2),
                    nv \in NaValuesOver(S), nr \in NaRangesOver(S) } IN
    { Get(m.value) : m \in { r \in made : r.status = "ok" } }

Templates == ColumnsOver(NumVals, {<<>>}) \cup ColumnsOver(StrVals, {<<Str(1)>>})

EmptyColumn == Column("LabelledSPSS", <<>>, EmptyDict, NoneOpt, NoneOpt, NoneOpt)

\* The outcome of an operation op with the warnings it emitted.
Outcome(op, warnings, outcome) == [op |-> op, warnings |-> warnings] @@ outcome

Idle == result.status = "none"

\* No files touched yet.
NoFiles == [target |-> "absent", tmp |-> "absent"]

\* The table-side variables of a specification that works on columns only.
NoTable ==
    /\ df = <<>>
    /\ meta = <<>>
    /\ kwargs = <<>>
    /\ native_calls = <<>>
    /\ fs = NoFiles

\* --------------------------------------------- specification: cast_to

InitCast ==
    /\ IsSource(x)
    /\ template \in Templates
    /\ result = NoResult
    /\ NoTable

\* x.cast_to(template)
CastTo ==
    /\ Idle
    /\ result' = Outcome("cast_to", <<>>, cast_to(x, template))
    /\ UNCHANGED <<x, template, df, meta, kwargs, native_calls, fs>>

NextCast == CastTo

SpecCast == InitCast /\ [][NextCast]_vars

\* --------------------------------- specification: operations on one column

InitColumn ==
    /\ IsSource(x)
    /\ template = EmptyColumn
    /\ result = NoResult
    /\ NoTable

\* x.is_na()
IsNa ==
    /\ Idle
    /\ result' = Outcome("is_na", <<>>, Ok(is_na(x)))
    /\ UNCHANGED <<x, template, df, meta, kwargs, native_calls, fs>>

NextColumn == IsNa

SpecColumn == InitColumn /\ [][NextColumn]_vars

\* --------------------------- specification: merging dictionaries, concat

InitMerge ==
    /\ x \in Templates
    /\ template \in Templates
    /\ result = NoResult
    /\ NoTable

\* labelled._combine_labels(x.labels, template.labels)
CombineLabels ==
    /\ Idle
    /\ LET c == _combine_labels(x.labels, template.labels) IN
       result' = Outcome("_combine_labels", conflict_warnings(c), Ok(c.labels))
    /\ UNCHANGED <<x, template, df, meta, kwargs, native_calls, fs>>

\* utils.combine_labels(x.labels, template.labels)
UtilsCombineLabels ==
    /\ Idle
    /\ result' = Outcome("combine_labels", <<>>, Ok(combine_labels(x.labels, template.labels)))
    /\ UNCHANGED <<x, template, df, meta, kwargs, native_calls, fs>>

\* LabelledSPSS.concat([x, template])
Concat ==
    /\ Idle
    /\ LET c == concat(<<x, template>>) IN
       result' = Outcome("concat", c.warnings, c.outcome)
    /\ UNCHANGED <<x, template, df, meta, kwargs, native_calls, fs>>

NextMerge == CombineLabels \/ UtilsCombineLabels \/ Concat

SpecMerge == InitMerge /\ [][NextMerge]_vars

\* ================================================================== tables

MaxCols == 2

\* A polars Series: a name (a sequence of characters), a dtype and its cells.
Series(name, dtype, values) == [name |-> name, dtype |-> dtype, vals |-> values]

\* df.columns
Columns(frame) == [j \in 1..Len(frame) |-> frame[j].name]

\* A name or a text of n copies of one character.
Repeat(ch, n) == [i \in 1..n |-> ch]

\* tagged_na.py: TaggedNA(tag); v is the rank of the tag letter (1 for 'a').
TaggedNA(t) == [kind |-> "tagged", v |-> t]

\* isinstance(v, TaggedNA)
IsTaggedNA(v) == v.kind = "tagged"

\* ------------------------------------------ stata.py: tagged-missing helpers

\* The 0-based row indexes of the tagged cells of a column, in order.
tagged_rows(values) ==
    SelectSeq([i \in 1..Len(values) |-> i - 1], LAMBDA r : IsTaggedNA(values[r + 1]))

\* One column of _extract_tagged_missings: the cells with every TaggedNA
\* replaced by None, and the record of where the tags were.
extract_column(c) ==
    LET rows == tagged_rows(c.vals)
        tags == [k \in 1..Len(rows) |-> c.vals[rows[k] + 1].v]
        cleared == [i \in 1..Len(c.vals) |-> IF IsTaggedNA(c.vals[i]) THEN None ELSE c.vals[i]]
        changed == Len(rows) > 0 IN
    [changed |-> changed,
     series |-> IF changed THEN Series(c.name, "Float64", cleared) ELSE c,
     spec |-> [col |-> c.name, rows |-> rows, tags |-> tags]]

\* _extract_tagged_missings(df): (out, specs)
_extract_tagged_missings(frame) ==
    LET per == [j \in 1..Len(frame) |-> extract_column(frame[j])]
        hit == SelectSeq(per, LAMBDA e : e.changed) IN
    [out |-> [j \in 1..Len(frame) |-> per[j].series],
     specs |-> [k \in 1..Len(hit) |-> hit[k].spec]]

\* Branch A of _hydrate_tagged_na for one record: rows and tags are non-empty
\* and of equal length; every row index inside the column gets its tag (the
\* last one written wins).  The records of the model carry no by_value.
hydrate_spec(values, spec) ==
    IF Len(spec.rows) > 0 /\ Len(spec.tags) > 0 /\ Len(spec.rows) = Len(spec.tags)
    THEN LET hits(i) == {k \in 1..Len(spec.rows) : spec.rows[k] = i - 1}
             last(i) == CHOOSE k \in hits(i) : \A k2 \in hits(i) : k2 <= k IN
         [changed |-> \E k \in 1..Len(spec.rows) : 0 <= spec.rows[k] /\ spec.rows[k] < Len(values),
          vals |-> [i \in 1..Len(values) |->
                      IF hits(i) # {} THEN TaggedNA(spec.tags[last(i)]) ELSE values[i]]]
    ELSE [changed |-> FALSE, vals |-> values]

RECURSIVE hydrate_specs(_, _, _)
\* The records of one column applied in order, from record k on.
hydrate_specs(acc, specs_for_col, k) ==
    IF k > Len(specs_for_col) THEN acc
    ELSE LET one == hydrate_spec(acc.vals, specs_for_col[k]) IN
         hydrate_specs([changed |-> acc.changed \/ one.changed, vals |-> one.vals],
                       specs_for_col, k + 1)

\* _hydrate_tagged_na(df, meta): a record is used when its column name is
\* truthy (not the empty string) and is a column of the table.
_hydrate_tagged_na(frame, m) ==
    LET specs == m.tagged_missings
        col_specs(name) == SelectSeq(specs, LAMBDA spec : spec.col # <<>> /\ spec.col = name)
        hydrated(c) == hydrate_specs([changed |-> FALSE, vals |-> c.vals], col_specs(c.name), 1) IN
    [j \in 1..Len(frame) |->
        IF hydrated(frame[j]).changed
        THEN Series(frame[j].name, "Object", hydrated(frame[j]).vals)
        ELSE frame[j]]

\* ----------------------------- specification: extract / hydrate cycles

TagNames == {<<>>, <<"x">>, <<"y">>}
TagCells == {Num(1), None, TaggedNA(1), TaggedNA(2)}

\* The dtype polars gives a column of floats, nulls and TaggedNA objects.
tagged_dtype(values) ==
    IF \E i \in 1..Len(values) : IsTaggedNA(values[i]) THEN "Object" ELSE "Float64"

Distinct(seq) == \A i, j \in 1..Len(seq) : i # j => seq[i] # seq[j]

InitTagged ==
    /\ \E n \in 0..MaxLen, k \in 1..MaxCols :
         \E names \in [1..k -> TagNames], cells \in [1..k -> [1..n -> TagCells]] :
            /\ Distinct(names)
            /\ df = [j \in 1..k |-> Series(names[j], tagged_dtype(cells[j]), cells[j])]
    /\ meta = [tagged_missings |-> <<>>]
    /\ kwargs = <<>>
    /\ native_calls = <<>>
    /\ fs = NoFiles
    /\ x = EmptyColumn
    /\ template = EmptyColumn
    /\ result = NoResult

\* df, specs = _extract_tagged_missings(df); the records go into the metadata.
ExtractTagged ==
    /\ result.op # "_extract_tagged_missings"
    /\ LET e == _extract_tagged_missings(df) IN
       /\ df' = e.out
       /\ meta' = [meta EXCEPT !.tagged_missings = e.specs]
       /\ result' = Outcome("_extract_tagged_missings", <<>>, Ok(e.specs))
    /\ UNCHANGED <<x, template, kwargs, native_calls, fs>>

\* df = _hydrate_tagged_na(df, meta)
HydrateTagged ==
    /\ result.op = "_extract_tagged_missings"
    /\ df' = _hydrate_tagged_na(df, meta)
    /\ result' = Outcome("_hydrate_tagged_na", <<>>, Ok(None))
    /\ UNCHANGED <<x, template, meta, kwargs, native_calls, fs>>

NextTagged == ExtractTagged \/ HydrateTagged

SpecTagged == InitTagged /\ [][NextTagged]_vars

\* ============================================================== writers

\* Text in a table that is written is a sequence of characters; NUL stands
\* for the character "\x00".
Text(chars) == [kind |-> "str", v |-> chars]
NUL == "NUL"

\* float("inf"), float("-inf") and float("nan")
Inf == [kind |-> "inf", v |-> 0]
NegInf == [kind |-> "inf", v |-> 0 - 1]
NaN == [kind |-> "nan", v |-> 0]

AsciiLower == {"a", "b", "o", "t", "x", "y"}
AsciiUpper == {"A", "B", "O", "T", "X", "Y"}
AsciiDigits == {"1", "9"}

\* An outcome that raises, with the values formatted into the message.
RaiseNaming(e, m, named) == [status |-> "raise", exc |-> e, msg |-> m, value |-> <<named>>]

\* ------------------------------------------------------- stata.py: write_dta

\* _STATA_NAME_RE.match(name): ^[A-Za-z_][A-Za-z0-9_]*$
_STATA_NAME_RE(name) ==
    /\ Len(name) >= 1
    /\ name[1] \in AsciiLower \cup AsciiUpper \cup {"_"}
    /\ \A i \in 2..Len(name) : name[i] \in AsciiLower \cup AsciiUpper \cup AsciiDigits \cup {"_"}

\* _stata_file_format(version)
_stata_file_format(version) ==
    IF version >= 113 THEN Ok(version)
    ELSE IF version = 15 THEN Ok(119)
    ELSE IF version = 14 THEN Ok(118)
    ELSE IF version = 13 THEN Ok(117)
    ELSE IF version = 12 THEN Ok(115)
    ELSE IF version \in {10, 11} THEN Ok(114)
    ELSE IF version \in {8, 9} THEN Ok(113)
    ELSE RaiseNaming("ValueError", "Unsupported Stata version (use 8-15)", version)

\* write_dta's version_human
version_human(version) ==
    IF version < 113 THEN version
    ELSE IF version = 119 THEN 15
    ELSE IF version = 118 THEN 14
    ELSE IF version = 117 THEN 13
    ELSE IF version = 115 THEN 12
    ELSE IF version = 114 THEN 11
    ELSE IF version = 113 THEN 9
    ELSE 15

\* The keys of a value-label mapping that are not integer codes.
bad_keys(mp) == {k \in DOMAIN mp : k.kind # "num"}

\* The same validation with the file-label test ahead of the name tests.
_validate_dta_names_and_labels_label_first(frame, vh, file_label, value_labels) ==
    LET names == Columns(frame)
        too_long == SelectSeq(names, LAMBDA c : Len(c) > 32)
        bad == SelectSeq(names, LAMBDA c : ~_STATA_NAME_RE(c))
        offenders == {var \in DOMAIN Get(value_labels) : bad_keys(Get(value_labels)[var]) # {}} IN
    IF ~IsNone(file_label) /\ Len(Get(file_label)) > 80
    THEN Raise("ValueError", "file_label must be 80 characters or fewer.")
    ELSE IF Len(too_long) > 0
    THEN RaiseNaming("ValueError", "Variables must have Stata-compatible names (<=32). Too long",
                     too_long)
    ELSE IF vh < 14 /\ Len(bad) > 0
    THEN RaiseNaming("ValueError", "Variables for Stata <14 must match ^[A-Za-z_][A-Za-z0-9_]*$",
                     bad)
    ELSE IF ~IsNone(value_labels) /\ DOMAIN Get(value_labels) # {} /\ offenders # {}
    THEN RaiseNaming("ValueError", "Value labels must use integer codes; offending keys",
                     offenders)
    ELSE Ok(None)

\* _validate_dta_names_and_labels(df, version_human=, file_label=, value_labels=)
_validate_dta_names_and_labels(frame, vh, file_label, value_labels) ==
    LET names == Columns(frame)
        too_long == SelectSeq(names, LAMBDA c : Len(c) > 32)
        bad == SelectSeq(names, LAMBDA c : ~_STATA_NAME_RE(c))
        offenders == {var \in DOMAIN Get(value_labels) : bad_keys(Get(value_labels)[var]) # {}} IN
    IF Len(too_long) > 0
    THEN RaiseNaming("ValueError", "Variables must have Stata-compatible names (<=32). Too long",
                     too_long)
    ELSE IF vh < 14 /\ Len(bad) > 0
    THEN RaiseNaming("ValueError", "Variables for Stata <14 must match ^[A-Za-z_][A-Za-z0-9_]*$",
                     bad)
    ELSE IF ~IsNone(file_label) /\ Len(Get(file_label)) > 80
    THEN Raise("ValueError", "file_label must be 80 characters or fewer.")
    ELSE IF ~IsNone(value_labels) /\ DOMAIN Get(value_labels) # {} /\ offenders # {}
    THEN RaiseNaming("ValueError", "Value labels must use integer codes; offending keys",
                     offenders)
    ELSE Ok(None)

\* str.len_bytes().fill_null(0).max() of a text column (the texts of the
\* model are ASCII: one byte per character).
max_len_bytes(c) ==
    LET lens == {IF c.vals[i] = None THEN 0 ELSE Len(c.vals[i].v) : i \in 1..Len(c.vals)} IN
    IF lens = {} THEN 0 ELSE CHOOSE n \in lens : \A n2 \in lens : n2 <= n

\* _ensure_strl_policy(df, version_human=, strl_threshold=)
_ensure_strl_policy(frame, vh, strl_threshold) ==
    LET long == SelectSeq(frame, LAMBDA c : c.dtype = "Utf8" /\ max_len_bytes(c) > 244) IN
    IF ~(0 <= strl_threshold /\ strl_threshold <= 2045)
    THEN Raise("ValueError", "strl_threshold must be within [0, 2045]")
    ELSE IF vh >= 13 THEN Ok(None)
    ELSE IF Len(long) > 0
    THEN RaiseNaming("ValueError", "Column contains strings of length, but Stata < 13 has no strL support.",
                     long[1].name)
    ELSE Ok(None)

\* _columns_with_interior_nul(df)
_columns_with_interior_nul(frame) ==
    LET hit(c) == /\ c.dtype = "Utf8"
                  /\ \E i \in 1..Len(c.vals) :
                        c.vals[i].kind = "str" /\ NUL \in Range(c.vals[i].v) IN
    Columns(SelectSeq(frame, hit))

\* pl.col(c).is_finite(), .is_nan() and .is_null() of a cell of a float column.
is_finite(v) == v.kind = "num"

is_nan(v) == v.kind = "nan"

is_null(v) == v = None

\* (~is_finite) & (~is_nan) of a cell; a null cell gives null, which any() skips.
is_infinite(v) == ~is_null(v) /\ ~is_finite(v) /\ ~is_nan(v)

\* _apply_inf_policy with NaN cells nulled as well under 'nan'.
_apply_inf_policy_nan_nulled(frame, na_policy) ==
    LET float_cols == SelectSeq(frame, LAMBDA c : c.dtype \in {"Float32", "Float64"})
        bad == SelectSeq(float_cols, LAMBDA c : \E i \in 1..Len(c.vals) : is_infinite(c.vals[i]))
        nulled(c) == [c EXCEPT !.vals = [i \in 1..Len(c.vals) |->
                                            IF is_finite(c.vals[i]) \/ is_null(c.vals[i])
                                            THEN c.vals[i] ELSE None]] IN
    IF na_policy \notin {"nan", "error", "keep"}
    THEN Raise("ValueError", "na_policy must be one of {'nan','error','keep'}")
    ELSE IF na_policy = "keep" THEN Ok(frame)
    ELSE IF Len(float_cols) = 0 THEN Ok(frame)
    ELSE IF na_policy = "error" THEN
        IF Len(bad) > 0
        THEN RaiseNaming("ValueError", "Found +-Inf values but na_policy='error' in columns",
                         Columns(bad))
        ELSE Ok(frame)
    ELSE Ok([j \in 1..Len(frame) |->
                IF frame[j].dtype \in {"Float32", "Float64"} THEN nulled(frame[j]) ELSE frame[j]])

\* _apply_inf_policy(df, na_policy=)
_apply_inf_policy(frame, na_policy) ==
    LET float_cols == SelectSeq(frame, LAMBDA c : c.dtype \in {"Float32", "Float64"})
        bad == SelectSeq(float_cols, LAMBDA c : \E i \in 1..Len(c.vals) : is_infinite(c.vals[i]))
        nulled(c) == [c EXCEPT !.vals = [i \in 1..Len(c.vals) |->
                                            IF is_finite(c.vals[i]) \/ is_null(c.vals[i])
                                                   \/ is_nan(c.vals[i])
                                            THEN c.vals[i] ELSE None]] IN
    IF na_policy \notin {"nan", "error", "keep"}
    THEN Raise("ValueError", "na_policy must be one of {'nan','error','keep'}")
    ELSE IF na_policy = "keep" THEN Ok(frame)
    ELSE IF Len(float_cols) = 0 THEN Ok(frame)
    ELSE IF na_policy = "error" THEN
        IF Len(bad) > 0
        THEN RaiseNaming("ValueError", "Found +-Inf values but na_policy='error' in columns",
                         Columns(bad))
        ELSE Ok(frame)
    ELSE Ok([j \in 1..Len(frame) |->
                IF frame[j].dtype \in {"Float32", "Float64"} THEN nulled(frame[j]) ELSE frame[j]])

\* _adjust_temporals(df, adjust_tz=): the tables of the model have no
\* time-zone-aware datetime column, for which the function returns df.
_adjust_temporals(frame, adjust_tz) == frame

IntDtypes == {"Int8", "Int16", "Int32", "Int64", "UInt8", "UInt16", "UInt32", "UInt64"}

\* _coerce_ints_to_f64_for_stata(df)
_coerce_ints_to_f64_for_stata(frame) ==
    [j \in 1..Len(frame) |->
        IF frame[j].dtype \in IntDtypes THEN [frame[j] EXCEPT !.dtype = "Float64"] ELSE frame[j]]

\* What a writer call leaves behind: its outcome, the native calls it made
\* and the files it touched.
Written(outcome, calls, files) == [outcome |-> outcome, calls |-> calls, files |-> files]

\* write_dta(df, path, version=, file_label=, value_labels=, strl_threshold=,
\* na_policy=): a.path is "str" for a filesystem path, "file" for a writable
\* file-like object and "other" for anything else.
write_dta(frame, a) ==
    LET tmp_made == [NoFiles EXCEPT !.tmp = IF a.path = "file" THEN "empty" ELSE "absent"]
        fmt == _stata_file_format(a.version)
        vh == version_human(a.version)
        names_ok == _validate_dta_names_and_labels(frame, vh, a.file_label, a.value_labels)
        strl_ok == _ensure_strl_policy(frame, vh, a.strl_threshold)
        nul_cols == _columns_with_interior_nul(frame)
        inf_ok == _apply_inf_policy(frame, a.na_policy)
        extracted == _extract_tagged_missings(_adjust_temporals(Get(inf_ok.value), a.adjust_tz))
        df_w == _coerce_ints_to_f64_for_stata(extracted.out)
        call == [fn |-> "df_write_dta_file", frame |-> df_w, path |-> a.path,
                 version |-> Get(fmt.value), file_label |-> a.file_label,
                 value_labels |-> a.value_labels, strl_threshold |-> a.strl_threshold,
                 user_missing |-> extracted.specs] IN
    IF a.path \notin {"str", "file"}
    THEN Written(Raise("TypeError", "path must be a filesystem path or a writable file-like object"),
                 <<>>, NoFiles)
    ELSE IF fmt.status = "raise" THEN Written(fmt, <<>>, tmp_made)
    ELSE IF names_ok.status = "raise" THEN Written(names_ok, <<>>, tmp_made)
    ELSE IF strl_ok.status = "raise" THEN Written(strl_ok, <<>>, tmp_made)
    ELSE IF Len(nul_cols) > 0
    THEN Written(RaiseNaming("ValueError", "Strings containing embedded NUL (\\x00) are not supported",
                             nul_cols), <<>>, tmp_made)
    ELSE IF inf_ok.status = "raise" THEN Written(inf_ok, <<>>, tmp_made)
    ELSE Written(Ok(frame), <<call>>, [target |-> "data", tmp |-> "absent"])

\* ------------------------------------------------------- spss.py: write_sav

CasePairs ==
    {<<"a", "A">>, <<"b", "B">>, <<"o", "O">>, <<"t", "T">>, <<"x", "X">>, <<"y", "Y">>,
     <<"e'", "E'">>}

\* The letters outside ASCII: e-acute and E-acute, two bytes each in UTF-8.
TwoByteLetters == {"e'", "E'"}

\* len(name.encode("utf-8"))
utf8_len(name) == Len(name) + Cardinality({i \in 1..Len(name) : name[i] \in TwoByteLetters})

\* str.isalpha() and str.isalnum() of one character.
isalpha(ch) == ch \in AsciiLower \cup AsciiUpper \cup TwoByteLetters

isalnum(ch) == isalpha(ch) \/ ch \in AsciiDigits

\* str.casefold() and str.upper(), character by character.
casefold(name) ==
    [i \in 1..Len(name) |->
        IF \E p \in CasePairs : p[2] = name[i]
        THEN (CHOOSE p \in CasePairs : p[2] = name[i])[1] ELSE name[i]]

upper(name) ==
    [i \in 1..Len(name) |->
        IF \E p \in CasePairs : p[1] = name[i]
        THEN (CHOOSE p \in CasePairs : p[1] = name[i])[2] ELSE name[i]]

_SPSS_RESERVED ==
    {<<"A", "L", "L">>, <<"A", "N", "D">>, <<"B", "Y">>, <<"E", "Q">>, <<"G", "E">>,
     <<"G", "T">>, <<"L", "E">>, <<"L", "T">>, <<"N", "E">>, <<"N", "O", "T">>,
     <<"O", "R">>, <<"T", "O">>, <<"W", "I", "T", "H">>}

\* _is_valid_varname with the length counted in characters.
_is_valid_varname_chars(name) ==
    /\ Len(name) > 0
    /\ Len(name) <= 64
    /\ isalpha(name[1])
    /\ \A i \in 2..Len(name) : isalnum(name[i]) \/ name[i] = "_"

\* _is_valid_varname(name)
_is_valid_varname(name) ==
    /\ Len(name) > 0
    /\ utf8_len(name) <= 64
    /\ isalpha(name[1])
    /\ \A i \in 2..Len(name) : isalnum(name[i]) \/ name[i] = "_"

\* _validate_sav(df): the error of the first column name that fails a test.
_validate_sav(frame) ==
    LET names == Columns(frame)
        dup(j) == \E i \in 1..(j - 1) : casefold(names[i]) = casefold(names[j])
        fails(j) == dup(j) \/ ~_is_valid_varname(names[j]) \/ upper(names[j]) \in _SPSS_RESERVED
        failing == {j \in 1..Len(names) : fails(j)}
        first == CHOOSE j \in failing : \A j2 \in failing : j <= j2 IN
    IF failing = {} THEN Ok(None)
    ELSE IF dup(first)
    THEN RaiseNaming("ValueError", "SPSS does not allow duplicate variable names (case-insensitive)",
                     names[first])
    ELSE IF ~_is_valid_varname(names[first])
    THEN RaiseNaming("ValueError", "Invalid variable name", names[first])
    ELSE RaiseNaming("ValueError", "Invalid/reserved variable name", names[first])

\* The text str(i) of a number, as a key of a JSON object: it sorts before
\* every letter, and float() parses it.
Digits(i) == [kind |-> "str", v |-> i - 100]

\* cats = to_write[col].cat.get_categories(): the distinct non-null cells, in
\* the order of their first appearance.
get_categories(vals) ==
    LET firsts == {i \in 1..Len(vals) :
                      vals[i] # None /\ \A i2 \in 1..(i - 1) : vals[i2] # vals[i]}
        rank(i) == Cardinality({i2 \in firsts : i2 <= i}) IN
    [c \in 1..Cardinality(firsts) |-> vals[CHOOSE i \in firsts : rank(i) = c]]

\* (to_write[col].to_physical() + 1).cast(pl.Float64): the 1-based codes.
categorical_codes(vals) ==
    LET cats == get_categories(vals) IN
    [i \in 1..Len(vals) |->
        IF vals[i] = None THEN None
        ELSE Num(CHOOSE c \in 1..Len(cats) : cats[c] = vals[i])]

\* labels = {str(i + 1): cats[i] for i in range(len(cats))}
categorical_labels(vals) ==
    LET cats == get_categories(vals) IN
    [k \in {Digits(c) : c \in 1..Len(cats)} |-> cats[CHOOSE c \in 1..Len(cats) : Digits(c) = k]]

\* The merge loop of write_sav over the Categorical columns from column j on,
\* working on the list object value_labels: existing['labels'].update(labels)
\* for the first entry of the column, and value_labels.append(...) otherwise.
RECURSIVE merge_categorical(_, _, _)
merge_categorical(frame, j, value_labels) ==
    LET col_name == frame[j].name
        labels == categorical_labels(frame[j].vals)
        entries == {k \in 1..Len(value_labels) : value_labels[k].col = col_name}
        existing == CHOOSE k \in entries : \A k2 \in entries : k <= k2
        merged == IF entries # {}
                  THEN [value_labels EXCEPT ![existing].labels = labels @@ @]
                  ELSE Append(value_labels, [col |-> col_name, labels |-> labels]) IN
    IF j > Len(frame) THEN value_labels
    ELSE IF frame[j].dtype # "Categorical" THEN merge_categorical(frame, j + 1, value_labels)
    ELSE merge_categorical(frame, j + 1, merged)

\* write_sav(df, path, compress=, adjust_tz=, value_labels=).  The field
\* value_labels of the result is the caller's value_labels object when the
\* call is over: with a Categorical column the merge loop works on the very
\* list the caller passed, and on a new list only when the caller passed None.
write_sav(frame, a) ==
    LET names_ok == _validate_sav(frame)
        adjusted == IF a.adjust_tz THEN _adjust_temporals(frame, TRUE) ELSE frame
        to_write == [j \in 1..Len(adjusted) |->
                        IF adjusted[j].dtype = "Categorical"
                        THEN Series(adjusted[j].name, "Float64", categorical_codes(adjusted[j].vals))
                        ELSE adjusted[j]]
        categorical == \E j \in 1..Len(adjusted) : adjusted[j].dtype = "Categorical"
        merged == merge_categorical(adjusted, 1,
                      IF IsNone(a.value_labels) THEN <<>> ELSE Get(a.value_labels))
        passed == IF categorical THEN Some(merged) ELSE a.value_labels
        call == [fn |-> "df_write_sav_file", frame |-> to_write, path |-> a.path,
                 compress |-> a.compress, value_labels |-> passed] IN
    IF a.compress \notin {"byte", "none", "zsav"}
    THEN [value_labels |-> a.value_labels] @@
         Written(RaiseNaming("ValueError", "compress must be 'byte', 'none', or 'zsav'", a.compress),
                 <<>>, NoFiles)
    ELSE IF names_ok.status = "raise"
    THEN [value_labels |-> a.value_labels] @@ Written(names_ok, <<>>, NoFiles)
    ELSE [value_labels |-> IF IsNone(a.value_labels) THEN NoneOpt ELSE passed] @@
         Written(Ok(frame), <<call>>, [target |-> "data", tmp |-> "absent"])

\* -------------------------------------------------------- sas.py: write_xpt

\* seq[:n]
Take(seq, n) == SubSeq(seq, 1, IF n < Len(seq) THEN n ELSE Len(seq))

\* write_xpt(df, path, version=, name=, label=, adjust_tz=).  a.stem is
\* Path(path).stem.  The native writer is taken to return; a.native tells
\* whether it left data or an empty file, and a.pyreadstat whether the
\* fallback library can be imported.
write_xpt(frame, a) ==
    LET max_len == IF a.version = 5 THEN 8 ELSE 32
        name == IF IsNone(a.name) THEN Take(a.stem, max_len) ELSE Get(a.name)
        floats == [j \in 1..Len(frame) |->
                     IF frame[j].dtype \in IntDtypes
                     THEN [frame[j] EXCEPT !.dtype = "Float64"] ELSE frame[j]]
        to_write == IF a.adjust_tz THEN _adjust_temporals(floats, TRUE) ELSE floats
        call == [fn |-> "df_write_xpt_file", frame |-> to_write, path |-> a.path,
                 version |-> a.version, name |-> name, label |-> a.label]
        fallback == [fn |-> "pyreadstat.write_xport", frame |-> to_write, path |-> a.path,
                     version |-> a.version, name |-> Take(name, max_len), label |-> a.label] IN
    IF a.version \notin {5, 8}
    THEN Written(RaiseNaming("ValueError", "version must be 5 or 8", a.version), <<>>, NoFiles)
    ELSE IF ~IsNone(a.name) /\ Len(Get(a.name)) > max_len
    THEN Written(RaiseNaming("ValueError", "name must be <= max_len characters", Len(Get(a.name))),
                 <<>>, NoFiles)
    ELSE IF ~IsNone(a.label) /\ Len(Get(a.label)) > 40
    THEN Written(RaiseNaming("ValueError", "label must be <= 40 characters", Len(Get(a.label))),
                 <<>>, NoFiles)
    ELSE IF a.native = "data"
    THEN Written(Ok(None), <<call>>, [target |-> "data", tmp |-> "absent"])
    ELSE IF a.pyreadstat
    THEN Written(Ok(None), <<call, fallback>>, [target |-> "data", tmp |-> "absent"])
    ELSE Written(Raise("RuntimeError", "Native XPT writer returned without error but produced an empty file"),
                 <<call>>, [target |-> "empty", tmp |-> "absent"])

\* --------------------------------------------- specification: the writers

WriterNames == {<<"a">>, <<"9">>, Repeat("a", 33)}

\* One-row columns: ordinary text, text with an embedded NUL, text of 245
\* bytes, an infinite float, a NaN and a tagged missing value.
WriterContents ==
    {[dtype |-> "Utf8", vals |-> <<Text(<<"a", "b">>)>>],
     [dtype |-> "Utf8", vals |-> <<Text(<<"a", NUL, "b">>)>>],
     [dtype |-> "Utf8", vals |-> <<Text(Repeat("a", 245))>>],
     [dtype |-> "Float64", vals |-> <<Inf>>],
     [dtype |-> "Float64", vals |-> <<NaN>>],
     [dtype |-> "Object", vals |-> <<TaggedNA(1)>>]}

InitWrite ==
    /\ \E k \in 1..MaxCols :
         \E names \in [1..k -> WriterNames], cols \in [1..k -> WriterContents] :
            /\ Distinct(names)
            /\ df = [j \in 1..k |-> Series(names[j], cols[j].dtype, cols[j].vals)]
    /\ meta = <<>>
    /\ kwargs = <<>>
    /\ native_calls = <<>>
    /\ fs = NoFiles
    /\ x = EmptyColumn
    /\ template = EmptyColumn
    /\ result = NoResult

\* The value_labels arguments tried: a mapping with an integer code and a
\* mapping with a text key.
DtaValueLabels ==
    {NoneOpt,
     Some([var \in {<<"a">>} |-> [k \in {Num(1)} |-> "Good"]]),
     Some([var \in {<<"a">>} |-> [k \in {Text(<<"a">>)} |-> "Good"]])}

\* The effect of a writer call on the state.
Wrote(op, a, w) ==
    /\ kwargs' = a
    /\ result' = Outcome(op, <<>>, w.outcome)
    /\ native_calls' = native_calls \o w.calls
    /\ fs' = w.files
    /\ UNCHANGED <<x, template, df, meta>>

\* write_dta(df, path, ...)
WriteDta ==
    /\ Idle
    /\ \E path \in {"str", "file", "other"}, version \in {7, 12, 13, 15, 116, 118, 120},
          file_label \in {NoneOpt, Some(Repeat("a", 80)), Some(Repeat("a", 81))},
          value_labels \in DtaValueLabels, strl_threshold \in {-1, 2045, 2046},
          na_policy \in {"nan", "error", "keep", "drop"} :
        LET a == [fn |-> "write_dta", path |-> path, version |-> version,
                  file_label |-> file_label, value_labels |-> value_labels,
                  strl_threshold |-> strl_threshold, adjust_tz |-> TRUE,
                  na_policy |-> na_policy] IN
        Wrote("write_dta", a, write_dta(df, a))

\* write_sav(df, path, ...)
WriteSav ==
    /\ Idle
    /\ \E compress \in {"byte", "none", "zsav", "gzip"} :
        LET a == [fn |-> "write_sav", path |-> "str", compress |-> compress,
                  adjust_tz |-> TRUE, value_labels |-> NoneOpt] IN
        Wrote("write_sav", a, write_sav(df, a))

\* write_xpt(df, path, ...)
WriteXpt ==
    /\ Idle
    /\ \E version \in {5, 6, 8}, native \in {"data", "empty"}, pyreadstat \in BOOLEAN,
          name \in {NoneOpt, Some(Repeat("a", 8)), Some(Repeat("a", 9)), Some(Repeat("a", 33))},
          label \in {NoneOpt, Some(Repeat("a", 40)), Some(Repeat("a", 41))} :
        LET a == [fn |-> "write_xpt", path |-> "str", stem |-> Repeat("t", 9),
                  version |-> version, name |-> name, label |-> label, adjust_tz |-> TRUE,
                  native |-> native, pyreadstat |-> pyreadstat] IN
        Wrote("write_xpt", a, write_xpt(df, a))

NextWrite == WriteDta \/ WriteSav \/ WriteXpt

SpecWrite == InitWrite /\ [][NextWrite]_vars

\* ====================================== spss.py: user-defined missing values

\* float(k) followed by int() for integral values; a key that float() rejects
\* (ValueError, TypeError) is kept as it is.
num_key(k) == IF k.kind = "str" /\ k.v < 0 THEN Num(k.v + 100) ELSE k

\* The dict built by the conversion loop of _apply_user_missing_to_column.
converted_labels(value_labels) ==
    [nk \in {num_key(k) : k \in DOMAIN value_labels} |->
        value_labels[CHOOSE k \in DOMAIN value_labels : num_key(k) = nk]]

\* _apply_user_missing_to_column(values, var_meta, value_labels)
_apply_user_missing_to_column(values, var_meta, value_labels) ==
    IF IsNone(var_meta.user_missing)
    THEN LabelledSPSS_post_init(Args(values, value_labels, var_meta.label, NoneOpt, NoneOpt))
    ELSE LET user_miss == Get(var_meta.user_missing)
             na_range == IF Len(user_miss.range) = 2 THEN Some(user_miss.range) ELSE NoneOpt
             convert == /\ ~IsNone(value_labels)
                        /\ DOMAIN Get(value_labels) # {}
                        /\ Len(values) > 0
                        /\ _is_numeric_scalar(values[1])
             labels == IF convert THEN Some(converted_labels(Get(value_labels)))
                       ELSE value_labels IN
         LabelledSPSS_post_init(Args(values, labels, var_meta.label,
                                     Some(user_miss.values), na_range))

\* value_label_sets.get(label_set) if label_set else None
label_set_of(m, var) ==
    IF IsNone(var.label_set) THEN NoneOpt
    ELSE LET sets == SelectSeq(m.value_labels, LAMBDA vl : vl.set_name = Get(var.label_set)) IN
         IF Len(sets) = 0 THEN NoneOpt ELSE Some(sets[Len(sets)].mapping)

\* df[col_name].to_list()
column_values(frame, name) == frame[CHOOSE j \in 1..Len(frame) : frame[j].name = name].vals

\* The variables the preserve branch of _hydrate_user_missing works on.
preserved_vars(frame, m) ==
    SelectSeq(m.vars, LAMBDA var :
        var.name \in Range(Columns(frame)) /\ ~IsNone(var.user_missing))

\* The record the preserve branch reports for one variable; a key that the
\* code leaves out is an empty list here.
missing_spec(var) ==
    [col |-> var.name, values |-> Get(var.user_missing).values,
     range |-> Get(var.user_missing).range]

\* The mask of the convert branch for one cell: null compares as null, which
\* pl.when() sends to otherwise().
convert_mask(v, user_miss) ==
    /\ v # None
    /\ \/ Len(user_miss.values) > 0 /\ v \in Range(user_miss.values)
       \/ /\ Len(user_miss.range) = 2
          /\ LET low == user_miss.range[1]
                 high == user_miss.range[2] IN
             IF low # None /\ high # None THEN low.v <= v.v /\ v.v <= high.v
             ELSE IF low # None THEN low.v <= v.v
             ELSE IF high # None THEN v.v <= high.v
             ELSE FALSE

\* The convert branch of _hydrate_user_missing for one column.
converted_column(c, m) ==
    LET rules == SelectSeq(m.vars, LAMBDA var :
                    /\ var.name = c.name
                    /\ ~IsNone(var.user_missing)
                    /\ (Len(Get(var.user_missing).values) > 0
                           \/ Len(Get(var.user_missing).range) > 0)) IN
    [c EXCEPT !.vals = [i \in 1..Len(c.vals) |->
        IF \E r \in 1..Len(rules) : convert_mask(c.vals[i], Get(rules[r].user_missing))
        THEN None ELSE c.vals[i]]]

\* _hydrate_user_missing(df, meta, user_na): the outcome, and the table and
\* metadata after the call.
_hydrate_user_missing(frame, m, user_na) ==
    LET todo == preserved_vars(frame, m)
        built == [k \in 1..Len(todo) |->
                    _apply_user_missing_to_column(column_values(frame, todo[k].name),
                                                  todo[k], label_set_of(m, todo[k]))]
        failed == {k \in 1..Len(todo) : built[k].status = "raise"}
        first == CHOOSE k \in failed : \A k2 \in failed : k <= k2
        labelled_columns ==
            [name \in {todo[k].name : k \in 1..Len(todo)} |->
                LET last == CHOOSE k \in 1..Len(todo) :
                                /\ todo[k].name = name
                                /\ \A k2 \in (k + 1)..Len(todo) : todo[k2].name # name IN
                Get(built[last].value)]
        reported == [labelled_columns |-> labelled_columns,
                     user_missing |-> [k \in 1..Len(todo) |-> missing_spec(todo[k])]] @@ m
        nulled == [j \in 1..Len(frame) |-> converted_column(frame[j], m)] IN
    IF user_na THEN
        IF failed # {} THEN [outcome |-> built[first], frame |-> frame, meta |-> m]
        ELSE [outcome |-> Ok(None), frame |-> frame, meta |-> reported]
    ELSE [outcome |-> Ok(None), frame |-> nulled, meta |-> m]

\* --------------------------------- specification: _hydrate_user_missing

\* A user_missing entry of a numeric variable: at most one discrete value
\* and at most one range lo <= hi.
UserMissingRules ==
    {r \in {[values |-> vs, range |-> rg] :
        vs \in SeqsUpTo(NumVals, 1),
        rg \in {<<>>} \cup {<<lo, hi>> : lo \in NumVals, hi \in NumVals}} :
        Len(r.range) = 2 => r.range[1].v <= r.range[2].v}

Var(name, label_set, user_missing) ==
    [name |-> name, label |-> NoneOpt, label_set |-> label_set, user_missing |-> user_missing]

\* The table a reader hands over: the column x under test, a column y with
\* no rule, and metadata that also describes a skipped column z.
InitHydrate ==
    /\ \E n \in 0..MaxLen :
         \E cells \in [1..n -> NumVals \cup {None}],
            label_set \in {NoneOpt, Some("labels0")},
            user_missing \in {NoneOpt} \cup {Some(r) : r \in UserMissingRules} :
            /\ df = <<Series(<<"x">>, "Float64", cells),
                      Series(<<"y">>, "Float64", [i \in 1..n |-> Num(1)])>>
            /\ meta = [vars |-> <<Var(<<"x">>, label_set, user_missing),
                                  Var(<<"y">>, NoneOpt, NoneOpt),
                                  Var(<<"z">>, NoneOpt, Some([values |-> <<Num(1)>>, range |-> <<>>]))>>,
                       value_labels |-> <<[set_name |-> "labels0",
                                           mapping |-> [k \in {Digits(1), Digits(2)} |->
                                                          IF k = Digits(1) THEN "Good" ELSE "Bad"]]>>]
    /\ kwargs = <<>>
    /\ native_calls = <<>>
    /\ fs = NoFiles
    /\ x = EmptyColumn
    /\ template = EmptyColumn
    /\ result = NoResult

\* df, meta = _hydrate_user_missing(df, meta, user_na)
HydrateUserMissing ==
    /\ Idle
    /\ \E user_na \in BOOLEAN :
        LET h == _hydrate_user_missing(df, meta, user_na) IN
        /\ kwargs' = [fn |-> "_hydrate_user_missing", user_na |-> user_na]
        /\ df' = h.frame
        /\ meta' = h.meta
        /\ result' = Outcome("_hydrate_user_missing", <<>>, h.outcome)
    /\ UNCHANGED <<x, template, native_calls, fs>>

NextHydrate == HydrateUserMissing

SpecHydrate == InitHydrate /\ [][NextHydrate]_vars

\* ------------------------------------------- helpers.py: _normalize_n_max

MaxRows == 2

\* The values an n_max argument is built from.  Nested(k) is the one-element
\* list [k] used as an element of another sequence.
PyInt(i) == [kind |-> "int", v |-> i]
NpInt(i) == [kind |-> "npint", v |-> i]
Bool(b) == [kind |-> "bool", v |-> b]
Float(i) == [kind |-> "float", v |-> i]
Nested(k) == [kind |-> "list", v |-> k]

\* An n_max argument: a bare value, or a list or tuple of values.
Bare(e) == [seq |-> "no", items |-> <<e>>]
ListOf(items) == [seq |-> "list", items |-> items]
TupleOf(items) == [seq |-> "tuple", items |-> items]

\* _normalize_n_max(n_max): None for unlimited, PyInt(k) for a limit of k rows.
_normalize_n_max(n) ==
    IF n.seq = "no" /\ n.items[1] = None THEN Ok(None)
    ELSE IF n.seq \in {"list", "tuple"} /\ Len(n.items) # 1
    THEN Raise("TypeError", "n_max must have length 1")
    ELSE LET e == n.items[1] IN
         IF e.kind \notin {"bool", "int", "npint"}
         THEN Raise("TypeError", "n_max must be an integer")
         ELSE IF e.v < 0 THEN Ok(None) ELSE Ok(PyInt(e.v))

\* ------------------------------------------------------ helpers.py: _as_path

\* The files a reader can touch: the temporary copy of a file-like input, the
\* temporary copy of a file-like catalog, the members extracted from a zip
\* archive, and whether the file-like input has been read.
NothingRead ==
    [target |-> "absent", tmp |-> "absent", catalog_tmp |-> "absent",
     extracted |-> "absent", input |-> "unread"]

\* What a reader call leaves behind.
ReadResult(outcome, calls, files) == [outcome |-> outcome, calls |-> calls, files |-> files]

\* The native decoder: a.decode says whether the file decodes.  The table has
\* min(limit, MaxRows) rows of the file's MaxRows rows.
native_parse(fn, path, catalog, limit, a, files) ==
    LET call == [fn |-> fn, path |-> path, catalog |-> catalog, n_max |-> limit]
        rows == IF limit = None \/ limit.v > MaxRows THEN MaxRows ELSE limit.v
        table == <<Series(<<"x">>, "Float64", [i \in 1..rows |-> Num(i)])>>
        info == [file_label |-> None, vars |-> <<"x">>, value_labels |-> <<>>,
                 user_missing |-> <<>>, n_rows |-> rows] IN
    IF a.decode = "fail"
    THEN ReadResult(Raise("RuntimeError", "native decoder failed"), <<call>>, files)
    ELSE ReadResult(Ok(<<table, info>>), <<call>>, files)

\* The zero-row fast path: pl.DataFrame({}) (pa.table({})) and its metadata.
EmptyRead ==
    Ok(<<<<>>, [file_label |-> None, vars |-> <<>>, value_labels |-> <<>>,
               user_missing |-> <<>>, n_rows |-> 0]>>)

\* with _as_path(data_path) as _path: native.<fn>(_path, ..., n_max, ...).
\* helpers.py never imports tempfile, so a file-like input raises NameError
\* at line 62, before a temporary file exists and before the input is read.
_as_path(fn, limit, a) ==
    IF a.src = "str" THEN native_parse(fn, "str", "none", limit, a, NothingRead)
    ELSE IF a.src = "file"
    THEN ReadResult(Raise("NameError", "name 'tempfile' is not defined"), <<>>, NothingRead)
    ELSE ReadResult(Raise("TypeError", "data_path must be a path or a file-like object"),
                    <<>>, NothingRead)

\* read_dta, read_stata_arrow, read_sav, read_por share one entry sequence.
read_through_as_path(fn, n, a) ==
    LET limit == _normalize_n_max(n) IN
    IF limit.status = "raise" THEN ReadResult(limit, <<>>, NothingRead)
    ELSE IF Get(limit.value) = PyInt(0) THEN ReadResult(EmptyRead, <<>>, NothingRead)
    ELSE _as_path(fn, Get(limit.value), a)

read_dta(n, a) == read_through_as_path("df_parse_dta_file", n, a)
read_stata_arrow(n, a) == read_through_as_path("df_parse_dta_file", n, a)
read_sav(n, a) == read_through_as_path("df_parse_sav_file", n, a)
read_por(n, a) == read_through_as_path("df_parse_por_file", n, a)

\* ------------------------------------------------------------ sas.py: readers

\* read_xpt(data_path, n_max=): os.fspath, _normalize_n_max, native call.
read_xpt(n, a) ==
    LET limit == _normalize_n_max(n) IN
    IF a.src # "str"
    THEN ReadResult(Raise("TypeError", "expected str, bytes or os.PathLike object"),
                    <<>>, NothingRead)
    ELSE IF limit.status = "raise" THEN ReadResult(limit, <<>>, NothingRead)
    ELSE native_parse("df_parse_xpt_file", "str", "none", Get(limit.value), a, NothingRead)

\* _as_path_like(obj) applied to the data path and then to the catalog path:
\* the temporary copy is made with delete=False and its name is returned.
_as_path_like(kind, files, which) ==
    IF kind = "str" THEN Ok(files)
    ELSE IF kind = "file"
    THEN Ok(IF which = "data" THEN [files EXCEPT !.tmp = "data", !.input = "read"]
            ELSE [files EXCEPT !.catalog_tmp = "data"])
    ELSE Raise("TypeError", "data_path must be a path or a file-like object")

\* read_sas(data_path, catalog_path=, n_max=)
read_sas(n, a) ==
    LET limit == _normalize_n_max(n)
        data == _as_path_like(a.src, NothingRead, "data")
        unzipped == [Get(data.value) EXCEPT !.extracted = "data"]
        cat == _as_path_like(a.catalog, Get(data.value), "catalog")
        path == IF a.src = "file" THEN "tmp" ELSE "str" IN
    IF a.src = "str" /\ a.ext = "xpt" THEN read_xpt(n, a)
    ELSE IF limit.status = "raise" THEN ReadResult(limit, <<>>, NothingRead)
    ELSE IF Get(limit.value) = PyInt(0) THEN ReadResult(EmptyRead, <<>>, NothingRead)
    ELSE IF data.status = "raise" THEN ReadResult(data, <<>>, NothingRead)
    ELSE IF a.src = "str" /\ a.ext = "zip"
    THEN IF a.zip = "invalid"
         THEN ReadResult(Raise("ValueError", "not a valid zip archive"), <<>>, Get(data.value))
         ELSE IF a.zip = "nosas"
         THEN ReadResult(Raise("FileNotFoundError", "contains no .sas7bdat files"),
                         <<>>, Get(data.value))
         ELSE native_parse("df_parse_sas_file", "extracted", a.catalog, Get(limit.value),
                           a, unzipped)
    ELSE IF a.catalog = "none"
    THEN native_parse("df_parse_sas_file", path, "none", Get(limit.value), a, Get(data.value))
    ELSE IF cat.status = "raise" THEN ReadResult(cat, <<>>, Get(data.value))
    ELSE native_parse("df_parse_sas_file", path, a.catalog, Get(limit.value), a,
                      Get(cat.value))

\* read_sas_arrow(data_path, catalog_path=, n_max=): the path goes to the
\* native call as it is; the binding takes a str only.
read_sas_arrow(n, a) ==
    LET limit == _normalize_n_max(n) IN
    IF limit.status = "raise" THEN ReadResult(limit, <<>>, NothingRead)
    ELSE IF Get(limit.value) = PyInt(0) THEN ReadResult(EmptyRead, <<>>, NothingRead)
    ELSE IF a.src # "str" \/ a.catalog \notin {"none", "str"}
    THEN ReadResult(Raise("TypeError", "argument 'path': 'object' cannot be converted to 'PyString'"),
                    <<>>, NothingRead)
    ELSE native_parse("df_parse_sas_file", "str", a.catalog, Get(limit.value), a, NothingRead)

\* ------------------------------------------------ specification: readers

NMaxElements ==
    {None, Str(1), Float(1)}
        \cup {PyInt(i) : i \in (0 - 1)..MaxRows + 1}
        \cup {NpInt(i) : i \in {0 - 1, 0, 1}}
        \cup {Bool(b) : b \in {0, 1}}

NMaxArgs ==
    {Bare(e) : e \in NMaxElements}
        \cup {ListOf(<<e>>) : e \in NMaxElements \cup {Nested(1)}}
        \cup {TupleOf(<<e>>) : e \in NMaxElements \cup {Nested(0)}}
        \cup {ListOf(<<>>), TupleOf(<<>>), ListOf(<<PyInt(1), PyInt(2)>>), TupleOf(<<PyInt(0), PyInt(0)>>),
              ListOf(<<None, None>>)}

ReadArgs ==
    {a \in [src : {"str", "file", "other"}, ext : {"data", "xpt", "zip"},
            catalog : {"none", "str", "file", "other"}, decode : {"ok", "fail"},
            zip : {"valid", "invalid", "nosas"}] :
        /\ a.ext # "data" => a.src = "str"
        /\ a.zip # "valid" => a.ext = "zip"}

InitRead ==
    /\ x \in NMaxArgs
    /\ kwargs \in ReadArgs
    /\ template = <<>>
    /\ result = NoResult
    /\ df = <<>>
    /\ meta = <<>>
    /\ native_calls = <<>>
    /\ fs = NothingRead

Red(op, r) ==
    /\ Idle
    /\ result' = Outcome(op, <<>>, r.outcome)
    /\ native_calls' = native_calls \o r.calls
    /\ fs' = r.files
    /\ UNCHANGED <<x, template, df, meta, kwargs>>

NormalizeNMax ==
    /\ Idle
    /\ result' = Outcome("_normalize_n_max", <<>>, _normalize_n_max(x))
    /\ UNCHANGED <<x, template, df, meta, kwargs, native_calls, fs>>

ReadSas == Red("read_sas", read_sas(x, kwargs))
ReadXpt == Red("read_xpt", read_xpt(x, kwargs))
ReadSasArrow == Red("read_sas_arrow", read_sas_arrow(x, kwargs))
ReadDta == Red("read_dta", read_dta(x, kwargs))
ReadStataArrow == Red("read_stata_arrow", read_stata_arrow(x, kwargs))
ReadSav == Red("read_sav", read_sav(x, kwargs))
ReadPor == Red("read_por", read_por(x, kwargs))

NextRead ==
    \/ NormalizeNMax
    \/ ReadSas
    \/ ReadXpt
    \/ ReadSasArrow
    \/ ReadDta
    \/ ReadStataArrow
    \/ ReadSav
    \/ ReadPor

SpecRead == InitRead /\ [][NextRead]_vars

\* ------------------------------------- specification: constructing a column

\* The values given to a constructor: numbers, text, None and a boolean.
CtorValues == {None, Num(1), Str(1), Bool(1)}

CtorCodes == {Num(1), Num(2), Str(1)}

\* Lists of discrete missing values, up to four of them.
CtorNaValues ==
    {<<>>, <<Num(1)>>, <<Num(1), Num(2)>>, <<Num(1), Num(2), Num(3)>>,
     <<Num(1), Num(2), Num(3), Num(4)>>, <<Str(1)>>, <<Str(1), Str(2)>>, <<None>>,
     <<None, Str(1)>>, <<Num(1), Str(1)>>, <<Bool(1)>>}

\* Ranges: tuples of zero to three bounds.
CtorNaRanges ==
    {<<>>, <<Num(1)>>, <<Num(1), Num(2)>>, <<Num(2), Num(1)>>, <<Num(2), Num(2)>>,
     <<None, Num(1)>>, <<Num(1), None>>, <<Str(1), Str(2)>>, <<Str(2), Str(1)>>,
     <<Str(1), Str(1)>>, <<Num(1), Str(1)>>, <<Num(1), Num(2), Num(3)>>, <<Bool(0), Bool(1)>>}

InitNew ==
    /\ x \in [data : SeqsUpTo(CtorValues, MaxLen),
              labels : {NoneOpt} \cup {Some(d) : d \in DictsOver(CtorCodes, 2)},
              label : {NoneOpt},
              na_values : {NoneOpt} \cup {Some(s) : s \in CtorNaValues},
              na_range : {NoneOpt} \cup {Some(r) : r \in CtorNaRanges}]
    /\ template = EmptyColumn
    /\ result = NoResult
    /\ NoTable

\* labelled(x.data, x.labels, label=x.label)
NewLabelled ==
    /\ Idle
    /\ result' = Outcome("labelled", <<>>, Labelled_post_init(x))
    /\ UNCHANGED <<x, template, df, meta, kwargs, native_calls, fs>>

\* labelled_spss(x.data, x.labels, na_values=, na_range=, label=)
NewLabelledSPSS ==
    /\ Idle
    /\ result' = Outcome("labelled_spss", <<>>, LabelledSPSS_post_init(x))
    /\ UNCHANGED <<x, template, df, meta, kwargs, native_calls, fs>>

NextNew == NewLabelled \/ NewLabelledSPSS

SpecNew == InitNew /\ [][NextNew]_vars

\* ------------------------------------ specification: _apply_inf_policy

\* Cells of a float column, and the columns of a table: Float64 and Float32
\* columns, an Int64 column, a text column and an Object column that holds
\* Python floats.
FloatCells == {Num(1), Inf, NegInf, NaN, None}

InfColumns ==
    {[dtype |-> t, vals |-> v] : t \in {"Float64", "Float32", "Object"},
                                  v \in [1..MaxLen -> FloatCells]}
        \cup {[dtype |-> "Int64", vals |-> [i \in 1..MaxLen |-> Num(i)]],
              [dtype |-> "Utf8", vals |-> [i \in 1..MaxLen |-> Text(<<"a">>)]]}

\* The columns that stand next to the first one.
OtherColumns ==
    {[dtype |-> "Int64", vals |-> [i \in 1..MaxLen |-> Num(i)]],
     [dtype |-> "Utf8", vals |-> [i \in 1..MaxLen |-> Text(<<"a">>)]],
     [dtype |-> "Object", vals |-> [i \in 1..MaxLen |-> Inf]],
     [dtype |-> "Float32", vals |-> [i \in 1..MaxLen |-> IF i = 1 THEN NegInf ELSE NaN]]}

InitInf ==
    /\ \E k \in 1..MaxCols :
         \E first \in InfColumns, others \in [2..k -> OtherColumns] :
            df = LET cols == [j \in 1..k |-> IF j = 1 THEN first ELSE others[j]] IN
                 [j \in 1..k |-> Series(Repeat("a", j), cols[j].dtype, cols[j].vals)]
    /\ meta = <<>>
    /\ kwargs = <<>>
    /\ native_calls = <<>>
    /\ fs = NoFiles
    /\ x = EmptyColumn
    /\ template = EmptyColumn
    /\ result = NoResult

\* _apply_inf_policy(df, na_policy=na_policy)
ApplyInfPolicy ==
    /\ Idle
    /\ \E na_policy \in {"nan", "error", "keep", "drop"} :
         /\ kwargs' = [na_policy |-> na_policy]
         /\ result' = Outcome("_apply_inf_policy", <<>>, _apply_inf_policy(df, na_policy))
    /\ UNCHANGED <<x, template, df, meta, native_calls, fs>>

NextInf == ApplyInfPolicy

SpecInf == InitInf /\ [][NextInf]_vars

\* ------------------------------------- specification: write_sav's names

\* Column names: valid ones, the same name in another case, a leading digit
\* and underscore, a character that is neither letter, digit nor underscore,
\* the empty name, 64 and 65 bytes, 33 two-byte letters, and reserved words
\* in lower and mixed case.
SavNames ==
    {<<"a">>, <<"A">>, <<"b", "_", "9">>, <<"9">>, <<"_", "a">>, <<"a", " ", "b">>, <<>>,
     Repeat("a", 64), Repeat("a", 65), Repeat("e'", 33), <<"e'", "E'">>,
     <<"b", "y">>, <<"T", "o">>, <<"A", "L", "L">>, <<"t", "o", "t">>}

InitSav ==
    /\ \E k \in 1..MaxCols :
         \E names \in [1..k -> SavNames] :
            /\ Distinct(names)
            /\ df = [j \in 1..k |-> Series(names[j], "Float64", <<Num(1)>>)]
    /\ meta = <<>>
    /\ kwargs = <<>>
    /\ native_calls = <<>>
    /\ fs = NoFiles
    /\ x = EmptyColumn
    /\ template = EmptyColumn
    /\ result = NoResult

SpecSav == InitSav /\ [][WriteSav]_vars

\* ==================================================================== zap.py

\* The text str(v) of a float with an integral value ("9.0"): another text
\* than Digits(i) ("9"), and float() parses both to the same number.
FloatDigits(i) == [kind |-> "str", v |-> i - 200]

\* str(v) of a code: "9" for the int 9, "9.0" for the float 9.0, and a text
\* is itself.
str(v) ==
    IF v.kind = "int" THEN Digits(v.v)
    ELSE IF v.kind = "float" THEN FloatDigits(v.v)
    ELSE v

\* _num(x) of _drop_codes: float(x), or None when float() raises.
_num(k) ==
    IF k.kind \in {"int", "float", "num"} THEN Some(k.v)
    ELSE IF k.kind = "str" /\ k.v < 0
         THEN Some(IF k.v < 0 - 150 THEN k.v + 200 ELSE k.v + 100)
    ELSE NoneOpt

\* d[k] = v of a dict.
Put(d, k, v) == [key \in DOMAIN d \cup {k} |-> IF key = k THEN v ELSE d[key]]

\* d.pop(k, None) of a dict.
Pop(d, k) == [key \in DOMAIN d \ {k} |-> d[key]]

\* spec.get(a1) or spec.get(a2) or ...: the first alias with a non-empty
\* name, and the empty name when there is none.
spec_col(spec, aliases) ==
    LET present == {i \in 1..Len(aliases) :
                       aliases[i] \in DOMAIN spec /\ spec[aliases[i]] # <<>>} IN
    IF present = {} THEN <<>>
    ELSE spec[aliases[CHOOSE i \in present : \A i2 \in present : i <= i2]]

\* spec.get(k) of a rule part: None when the record has no such key.
rule_part(spec, k) == IF k \in DOMAIN spec THEN spec[k] ELSE NoneOpt

\* _user_missing_map(meta): per column the na_values and na_range of the last
\* record naming it; a part that is None stands for a key left out.
_user_missing_map(m) ==
    LET specs == IF "user_missing" \in DOMAIN m THEN m.user_missing ELSE <<>>
        col(k) == spec_col(specs[k], <<"col", "name", "column", "var">>)
        named == {k \in 1..Len(specs) : col(k) # <<>>}
        last(c) == CHOOSE k \in named : col(k) = c /\ \A k2 \in named : col(k2) = c => k2 <= k IN
    [c \in {col(k) : k \in named} |->
        [na_values |-> rule_part(specs[last(c)], "na_values"),
         na_range |-> rule_part(specs[last(c)], "na_range")]]

\* zap_missing(df, meta): the table with TaggedNA cells, non-finite float
\* cells and the cells matching the column's rule replaced by null.  int(v)
\* and float(v) of the discrete values make the comparison numeric.
zap_missing(frame, m) ==
    LET umap == _user_missing_map(m)
        zapped(c) ==
            LET has == c.name \in DOMAIN umap
                nv == IF has /\ ~IsNone(umap[c.name].na_values)
                      THEN Get(umap[c.name].na_values) ELSE <<>>
                r == IF has THEN umap[c.name].na_range ELSE NoneOpt
                cond(v) ==
                    \/ c.dtype \in {"Float32", "Float64"} /\ ~is_null(v) /\ ~is_finite(v)
                    \/ is_finite(v) /\ \E i \in 1..Len(nv) : nv[i].v = v.v
                    \/ is_finite(v) /\ ~IsNone(r)
                          /\ Get(r)[1].v <= v.v /\ v.v <= Get(r)[2].v IN
            [c EXCEPT !.vals = [i \in 1..Len(c.vals) |->
                IF IsTaggedNA(c.vals[i]) \/ cond(c.vals[i]) THEN None ELSE c.vals[i]]] IN
    [j \in 1..Len(frame) |-> zapped(frame[j])]

\* _drop_codes(set_name, dtype, na_values, na_range) of zap_missing_with_meta
\* on the value_labels list of the copy: the list afterwards, or the
\* TypeError of comparing a number with a key in the Utf8 branch.
_drop_codes(vls, set_name, dtype, na_values, na_range) ==
    LET named == {k \in 1..Len(vls) : vls[k].set_name = set_name}
        at == CHOOSE k \in named : \A k2 \in named : k2 <= k
        mapping == vls[at].mapping
        nv == IF IsNone(na_values) THEN <<>> ELSE Get(na_values)
        after_values ==
            [k \in DOMAIN mapping \ {str(nv[i]) : i \in 1..Len(nv)} |-> mapping[k]]
        ranged == ~IsNone(na_range) /\ Get(na_range) # <<>>
        lo == Get(na_range)[1]
        hi == Get(na_range)[2]
        keys == DOMAIN after_values
        unordered == /\ dtype = "Utf8"
                     /\ keys # {}
                     /\ \/ lo.kind # "str"
                        \/ hi.kind # "str" /\ \E k \in keys : lo.v <= k.v
        to_remove ==
            IF dtype = "Utf8" THEN {k \in keys : lo.v <= k.v /\ k.v <= hi.v}
            ELSE IF IsNone(_num(lo)) \/ IsNone(_num(hi)) THEN {}
            ELSE {k \in keys : /\ ~IsNone(_num(k))
                               /\ Get(_num(lo)) <= Get(_num(k))
                               /\ Get(_num(k)) <= Get(_num(hi))} IN
    IF set_name = None \/ named = {} THEN Ok(vls)
    ELSE IF ~ranged THEN Ok([vls EXCEPT ![at].mapping = after_values])
    ELSE IF unordered THEN Raise("TypeError", "'<=' not supported")
    ELSE Ok([vls EXCEPT ![at].mapping = [k \in keys \ to_remove |-> after_values[k]]])

\* The loop of zap_missing_with_meta over meta_out['user_missing'], from
\* record k on: only the key 'col' names the column, and a column that the
\* table does not have counts as Utf8.
RECURSIVE drop_from(_, _, _, _)
drop_from(k, vls, frame, m) ==
    LET um == m.user_missing[k]
        col == spec_col(um, <<"col">>)
        described == {j \in 1..Len(m.vars) : m.vars[j].name = col}
        var == m.vars[CHOOSE j \in described : \A j2 \in described : j2 <= j]
        set_name == IF "label_set" \in DOMAIN var THEN var.label_set ELSE None
        cols == {j \in 1..Len(frame) : frame[j].name = col}
        dtype == IF cols = {} THEN "Utf8" ELSE frame[CHOOSE j \in cols : TRUE].dtype
        dropped == _drop_codes(vls, set_name, dtype,
                               rule_part(um, "na_values"), rule_part(um, "na_range")) IN
    IF k > Len(m.user_missing) THEN Ok(vls)
    ELSE IF col = <<>> \/ described = {} THEN drop_from(k + 1, vls, frame, m)
    ELSE IF dropped.status = "raise" THEN dropped
    ELSE drop_from(k + 1, Get(dropped.value), frame, m)

\* zap_missing_with_meta(df, meta): (out, meta_out), where meta_out is a deep
\* copy of meta with the codes dropped from the label sets.
zap_missing_with_meta(frame, m) ==
    LET dropped == drop_from(1, m.value_labels, frame, m) IN
    IF dropped.status = "raise" THEN dropped
    ELSE Ok(<<zap_missing(frame, m), [m EXCEPT !.value_labels = Get(dropped.value)]>>)

\* ------------------------------------------- specification: zap_missing

\* The records of meta['user_missing'] in the form test_zap.py gives them:
\* the column under 'col' or under the alias 'name', at most one discrete
\* code, written as an int or as a float, and at most one range.
ZapUserMissing ==
    {<<>>} \cup
    {<<(key :> col) @@ [type |-> "spss", na_values |-> nv, na_range |-> r]>> :
        key \in {"col", "name"},
        col \in {<<"x">>, <<"z">>},
        nv \in {NoneOpt} \cup {Some(<<c>>) : c \in {PyInt(i) : i \in 1..MaxNum}
                                                  \cup {Float(i) : i \in 1..MaxNum}},
        r \in {NoneOpt} \cup {Some(<<PyInt(lo), PyInt(hi)>>) :
                                 lo \in 1..MaxNum, hi \in 1..MaxNum}}

\* A variable entry of meta['vars'].
ZapVar(name, label, label_set) ==
    [name |-> name, label |-> label, label_set |-> label_set, fmt |-> None]

\* A table with the numeric column x under test and a column y, and metadata
\* describing x and a column z that the table does not have; x and z share
\* one label set with integer-text keys.
InitZapMissing ==
    /\ \E n \in 0..MaxLen :
         \E cells \in [1..n -> NumVals \cup {None}],
            dtype \in {"Int64", "Float64"},
            label_set \in {None, Str(2)},
            um \in ZapUserMissing :
            /\ df = <<Series(<<"x">>, dtype, cells),
                      Series(<<"y">>, "Float64", [i \in 1..n |-> Num(1)])>>
            /\ meta = [file_label |-> Str(1),
                       vars |-> <<ZapVar(<<"x">>, Str(1), label_set),
                                  ZapVar(<<"z">>, None, Str(2))>>,
                       value_labels |-> <<[set_name |-> Str(2),
                                           mapping |-> [k \in {Digits(i) : i \in 1..MaxNum} |->
                                                           Str(1)]]>>,
                       user_missing |-> um]
    /\ kwargs = <<>>
    /\ native_calls = <<>>
    /\ fs = NoFiles
    /\ x = EmptyColumn
    /\ template = EmptyColumn
    /\ result = NoResult

\* out = zap_missing(df, meta)
ZapMissing ==
    /\ Idle
    /\ result' = Outcome("zap_missing", <<>>, Ok(zap_missing(df, meta)))
    /\ UNCHANGED <<x, template, df, meta, kwargs, native_calls, fs>>

\* out, meta_out = zap_missing_with_meta(df, meta)
ZapMissingWithMeta ==
    /\ Idle
    /\ result' = Outcome("zap_missing_with_meta", <<>>, zap_missing_with_meta(df, meta))
    /\ UNCHANGED <<x, template, df, meta, kwargs, native_calls, fs>>

NextZapMissing == ZapMissing \/ ZapMissingWithMeta

SpecZapMissing == InitZapMissing /\ [][NextZapMissing]_vars

\* ------------------------------------ zap.py: zap_label, zap_labels, zap_widths

\* d.get(k) of a variable entry: None for a key it does not have.
var_get(v, k) == IF k \in DOMAIN v THEN v[k] ELSE None

_zap_label_meta_links_too(m) ==
    LET out == IF "vars" \in DOMAIN m
               THEN [m EXCEPT !.vars = [j \in 1..Len(m.vars) |->
                        Put(Put(m.vars[j], "label", None), "label_set", None)]]
               ELSE m IN
    Put(out, "file_label", None)

\* _zap_label_meta(meta): a deep copy with every variable label and the file
\* label set to None.
_zap_label_meta(m) ==
    LET out == IF "vars" \in DOMAIN m
               THEN [m EXCEPT !.vars = [j \in 1..Len(m.vars) |-> Put(m.vars[j], "label", None)]]
               ELSE m IN
    Put(out, "file_label", None)

\* _zap_labels_meta(meta), the second definition, which is the one in force.
_zap_labels_meta(m) ==
    LET out == IF "vars" \in DOMAIN m
               THEN [m EXCEPT !.vars = [j \in 1..Len(m.vars) |-> Put(m.vars[j], "label_set", None)]]
               ELSE m IN
    Put(out, "value_labels", <<>>)

\* zap_label(meta) and zap_label(df, meta)
zap_label(frame, m, form) ==
    IF form = "meta" THEN Ok(_zap_label_meta(m)) ELSE Ok(<<frame, _zap_label_meta(m)>>)

\* zap_labels(meta) and zap_labels(df, meta); the second form aligns the
\* variable entries to df.columns.
zap_labels(frame, m, form) ==
    LET vars_in == IF "vars" \in DOMAIN m THEN m.vars ELSE <<>>
        in_map(name) ==
            LET named == {j \in 1..Len(vars_in) : var_get(vars_in[j], "name") = name} IN
            IF named = {} THEN EmptyDict
            ELSE vars_in[CHOOSE j \in named : \A j2 \in named : j2 <= j]
        aligned(name) ==
            LET v == in_map(name) IN
            Put(Put(Put(Put(v, "name", name), "label", var_get(v, "label")),
                    "fmt", var_get(v, "fmt")), "label_set", None)
        aligned_vars == [j \in 1..Len(frame) |-> aligned(frame[j].name)]
        meta_out == Put(Put(m, "vars", aligned_vars), "value_labels", <<>>) IN
    IF form = "meta" THEN Ok(_zap_labels_meta(m)) ELSE Ok(<<frame, meta_out>>)

\* zap_widths(meta) and zap_widths(df, meta)
zap_widths(frame, m, form) ==
    LET out == IF "vars" \in DOMAIN m
               THEN [m EXCEPT !.vars = [j \in 1..Len(m.vars) |-> Pop(m.vars[j], "display_width")]]
               ELSE m IN
    IF form = "meta" THEN Ok(out) ELSE Ok(<<frame, out>>)

\* ------------------------------ specification: zap_label, zap_labels, zap_widths

\* The entries of a variable x: with all keys of _fake_meta, with a display
\* width as well, and without the key fmt.
ZapVars ==
    UNION {{ZapVar(<<"x">>, label, label_set),
            Put(ZapVar(<<"x">>, label, label_set), "display_width", Num(1)),
            Pop(ZapVar(<<"x">>, label, label_set), "fmt")} :
           label \in {None, Str(1)}, label_set \in {None, Str(2)}}

\* A table and metadata whose variables need not be the table's columns.
InitZapLabel ==
    /\ \E varx \in ZapVars, file_label \in {None, Str(1)} :
         \E described \in {<<varx>>, <<varx, ZapVar(<<"y">>, Str(2), Str(2))>>,
                           <<ZapVar(<<"z">>, Str(1), None), varx>>},
            columns \in {<<>>, <<<<"x">>>>, <<<<"x">>, <<"y">>>>, <<<<"y">>, <<"x">>>>} :
            /\ df = [j \in 1..Len(columns) |-> Series(columns[j], "Float64", <<Num(j)>>)]
            /\ meta = [file_label |-> file_label,
                       vars |-> described,
                       value_labels |-> <<[set_name |-> Str(2),
                                           mapping |-> [k \in {Digits(1)} |-> Str(1)]]>>,
                       user_missing |-> <<>>]
    /\ kwargs = <<>>
    /\ native_calls = <<>>
    /\ fs = NoFiles
    /\ x = EmptyColumn
    /\ template = EmptyColumn
    /\ result = NoResult

\* The call fn(meta) or fn(df, meta), which leaves its arguments as they are.
Zapped(fn, form, outcome) ==
    /\ Idle
    /\ kwargs' = [fn |-> fn, form |-> form]
    /\ result' = Outcome(fn, <<>>, outcome)
    /\ UNCHANGED <<x, template, df, meta, native_calls, fs>>

ZapLabel == \E form \in {"meta", "df"} : Zapped("zap_label", form, zap_label(df, meta, form))

ZapLabels == \E form \in {"meta", "df"} : Zapped("zap_labels", form, zap_labels(df, meta, form))

ZapWidths == \E form \in {"meta", "df"} : Zapped("zap_widths", form, zap_widths(df, meta, form))

NextZapLabel == ZapLabel \/ ZapLabels \/ ZapWidths

SpecZapLabel == InitZapLabel /\ [][NextZapLabel]_vars

\* ------------------------- specification: write_sav with caller's value labels

\* The value_labels argument of write_sav, as test_spss.py gives it: absent,
\* an empty list, labels for the column x or labels for the column y.
SavValueLabels ==
    {NoneOpt, Some(<<>>)} \cup
    {Some(<<[col |-> c, labels |-> [k \in {Digits(1)} |-> Text(<<"n", "o">>)]]>>) :
        c \in {<<"x">>, <<"y">>}}

\* A table with a column x of texts, Categorical or not, and a numeric column
\* y; meta holds the caller's value_labels object.
InitSavLabels ==
    /\ \E n \in 0..MaxLen :
         \E cells \in [1..n -> {Text(<<"a">>), Text(<<"b">>), None}],
            dtype \in {"Categorical", "Utf8"},
            value_labels \in SavValueLabels :
            /\ df = <<Series(<<"x">>, dtype, cells),
                      Series(<<"y">>, "Float64", [i \in 1..n |-> Num(i)])>>
            /\ meta = [value_labels |-> value_labels]
    /\ kwargs = <<>>
    /\ native_calls = <<>>
    /\ fs = NoFiles
    /\ x = EmptyColumn
    /\ template = EmptyColumn
    /\ result = NoResult

\* df_returned = write_sav(df, path, compress=..., value_labels=value_labels)
WriteSavLabels ==
    /\ Idle
    /\ \E compress \in {"byte", "gzip"} :
        LET a == [fn |-> "write_sav", path |-> "str", compress |-> compress,
                  adjust_tz |-> TRUE, value_labels |-> meta.value_labels]
            w == write_sav(df, a) IN
        /\ kwargs' = a
        /\ result' = Outcome("write_sav", <<>>, w.outcome)
        /\ native_calls' = native_calls \o w.calls
        /\ fs' = w.files
        /\ meta' = [value_labels |-> w.value_labels]
    /\ UNCHANGED <<x, template, df>>

SpecSavLabels == InitSavLabels /\ [][WriteSavLabels]_vars

\* --------------------------------------------- labelled.py: __getitem__

\* self.data[start:stop] for a slice with 0 <= start, 0 <= stop and step 1.
sliced(data, start, stop) ==
    SubSeq(data, start + 1, IF stop < Len(data) THEN stop ELSE Len(data))

\* Labelled.__getitem__ and LabelledSPSS.__getitem__ for the slice
\* start:stop: self.__class__ is called with the sliced data and the
\* attributes of self, which runs __post_init__ again.
__getitem__(c, start, stop) ==
    IF c.cls = "Labelled"
    THEN Labelled_post_init(Args(sliced(c.data, start, stop), Some(c.labels), c.label,
                                 NoneOpt, NoneOpt))
    ELSE LabelledSPSS_post_init(Args(sliced(c.data, start, stop), Some(c.labels), c.label,
                                     c.na_values, c.na_range))

\* ------------------------------------------- specification: __getitem__

\* A valid LabelledSPSS column, numeric or text, or the Labelled column with
\* the same data and labels.
InitSlice ==
    /\ \E src \in ColumnsOver(NumVals, SeqsUpTo(NumVals \cup {None}, MaxLen))
                  \cup ColumnsOver(StrVals, SeqsUpTo(StrVals \cup {None}, MaxLen)
                                               \ SeqsUpTo({None}, MaxLen)) :
          x \in {src, Column("Labelled", src.data, src.labels, src.label, NoneOpt, NoneOpt)}
    /\ template = EmptyColumn
    /\ result = NoResult
    /\ NoTable

\* x[start:stop]
GetItem ==
    /\ Idle
    /\ \E start \in 0..MaxLen, stop \in 0..MaxLen :
        /\ kwargs' = [fn |-> "__getitem__", start |-> start, stop |-> stop]
        /\ result' = Outcome("__getitem__", <<>>, __getitem__(x, start, stop))
    /\ UNCHANGED <<x, template, df, meta, native_calls, fs>>

SpecSlice == InitSlice /\ [][GetItem]_vars

\* ------------------------------------- specification: LabelledSPSS.concat

\* Two LabelledSPSS columns; the left one has a variable label or none.
InitConcat ==
    /\ \E a \in Templates, b \in Templates, la \in {NoneOpt, Some(Str(1))} :
          /\ x = [a EXCEPT !.label = la]
          /\ template = [b EXCEPT !.label = Some(Str(2))]
    /\ result = NoResult
    /\ NoTable

\* LabelledSPSS.concat(vectors) for the operand lists [x, template],
\* [x, template.data], [x.data, template] and [x, template, x].
ConcatVectors ==
    /\ Idle
    /\ \E vectors \in {<<x, template>>, <<x, BareList(template.data)>>,
                       <<BareList(x.data), template>>, <<x, template, x>>} :
        LET c == concat(vectors) IN
        /\ kwargs' = [fn |-> "concat", vectors |-> vectors]
        /\ result' = Outcome("concat", c.warnings, c.outcome)
    /\ UNCHANGED <<x, template, df, meta, native_calls, fs>>

SpecConcat == InitConcat /\ [][ConcatVectors]_vars

\* ------------------ specification: zap_missing after a read in preserve mode

\* out = zap_missing(df, meta) on the table and metadata that the read in
\* preserve mode returned.
ZapMissingAfterRead ==
    /\ result.op = "_hydrate_user_missing"
    /\ result.status = "ok"
    /\ kwargs.user_na
    /\ result' = Outcome("zap_missing", <<>>, Ok(zap_missing(df, meta)))
    /\ UNCHANGED <<x, template, df, meta, kwargs, native_calls, fs>>

NextHydrateZap == HydrateUserMissing \/ ZapMissingAfterRead

SpecHydrateZap == InitHydrate /\ [][NextHydrateZap]_vars

\* ------------------------------------ labelled.py: to_int, to_float, to_str

\* LabelledSPSS.to_int(): int(v) of every element, and 0 for None.
to_int(self) ==
    IF ~_is_numeric_seq(self.data)
    THEN Raise("TypeError", "Cannot convert string labelled to int")
    ELSE Ok([i \in 1..Len(self.data) |->
                IF self.data[i] # None THEN PyInt(self.data[i].v) ELSE PyInt(0)])

\* LabelledSPSS.to_float(): float(v) of every element, and NaN for None.
to_float(self) ==
    IF ~_is_numeric_seq(self.data)
    THEN Raise("TypeError", "Cannot convert string labelled to float")
    ELSE Ok([i \in 1..Len(self.data) |->
                IF self.data[i] # None THEN Float(self.data[i].v) ELSE NaN])

\* LabelledSPSS.to_str(): str(v) of every element, and the empty text Str(0)
\* for None.
to_str(self) ==
    IF _is_numeric_seq(self.data)
    THEN Raise("TypeError", "Cannot convert numeric labelled to str")
    ELSE Ok([i \in 1..Len(self.data) |->
                IF self.data[i] # None THEN str(self.data[i]) ELSE Str(0)])

\* ----------------------------- specification: to_int, to_float, to_str

\* The elements a column may hold: the numbers from 0 on, or the texts from
\* the empty text Str(0) on, and None.
AtomicData ==
    SeqsUpTo({Num(i) : i \in 0..MaxNum} \cup {None}, MaxLen)
        \cup SeqsUpTo({Str(i) : i \in 0..MaxStr} \cup {None}, MaxLen)

\* x = labelled_spss(data, label=label)
InitAtomic ==
    /\ \E data \in AtomicData, label \in {NoneOpt, Some(Str(1))} :
          x = Get(LabelledSPSS_post_init(Args(data, NoneOpt, label, NoneOpt, NoneOpt)).value)
    /\ template = EmptyColumn
    /\ result = NoResult
    /\ NoTable

\* x.to_int(), x.to_float() or x.to_str()
ToAtomic ==
    /\ Idle
    /\ \/ result' = Outcome("to_int", <<>>, to_int(x))
       \/ result' = Outcome("to_float", <<>>, to_float(x))
       \/ result' = Outcome("to_str", <<>>, to_str(x))
    /\ UNCHANGED <<x, template, df, meta, kwargs, native_calls, fs>>

SpecAtomic == InitAtomic /\ [][ToAtomic]_vars

\* ======================================================== properties

LossyLabelMsg == "Lossy cast: labeled in source but not in target"
LossyMissingMsg == "Lossy cast: user-missing in source but not in target"

\* The last operation failed with a lossy-cast error.
LossyCast == result.status = "raise" /\ result.msg \in {LossyLabelMsg, LossyMissingMsg}

Casted == result.op = "cast_to"

\* Some element of the source data is a source code the template dictionary lacks.
InUseCodeRemoved ==
    \E i \in 1..Len(x.data) : x.data[i] \in Keys(x.labels) \ Keys(template.labels)

SameRule == x.na_values = template.na_values /\ x.na_range = template.na_range

\* The kind labelled.py takes a column's data to be: numeric when every element
\* is a number or null (also when there is no element), else text.
KindOf(data) == IF _is_numeric_seq(data) THEN "num" ELSE "str"

\* The template's codes, discrete missing values and range bounds are all of
\* the kind of the source data.
TemplateOfSourceKind ==
    /\ \A k \in Keys(template.labels) : k.kind = KindOf(x.data)
    /\ ~IsNone(template.na_values) =>
          \A v \in Range(Get(template.na_values)) : v.kind = KindOf(x.data)
    /\ ~IsNone(template.na_range) =>
          \A j \in 1..2 : Get(template.na_range)[j].kind = KindOf(x.data)

CastSucceeded ==
    /\ result.status = "ok"
    /\ Get(result.value).data = x.data
    /\ Get(result.value).labels = template.labels

C2_SameLabelString ==
    (Casted /\ result.status = "ok") =>
        \A i \in 1..Len(x.data) :
            x.data[i] \in Keys(x.labels) =>
                /\ x.data[i] \in Keys(template.labels)
                /\ template.labels[x.data[i]] = x.labels[x.data[i]]

\* Membership of a non-null value in a rule, written from the claim's words.
UserMissing(v, na_values, na_range) ==
    \/ ~IsNone(na_values) /\ v \in Range(Get(na_values))
    \/ ~IsNone(na_range) /\ Get(na_range)[1].kind = v.kind
          /\ Get(na_range)[1].v <= v.v /\ v.v <= Get(na_range)[2].v

\* Some non-null source element is user-missing in the source and not in the template.
MissingDropped ==
    \E i \in 1..Len(x.data) :
        /\ x.data[i] # None
        /\ UserMissing(x.data[i], x.na_values, x.na_range)
        /\ ~UserMissing(x.data[i], template.na_values, template.na_range)

LabelCheckPasses == ~InUseCodeRemoved

C4_RangeInclusive ==
    (result.op = "is_na" /\ ~IsNone(x.na_range)) =>
        LET flags == Get(result.value)
            lo == Get(x.na_range)[1]
            hi == Get(x.na_range)[2]
            listed(v) == ~IsNone(x.na_values) /\ v \in Range(Get(x.na_values))
        IN /\ DOMAIN flags = 1..Len(x.data)
           /\ \A i \in 1..Len(x.data) :
                LET v == x.data[i] IN
                /\ v = None => flags[i]
                /\ v \in {lo, hi} => flags[i]
                /\ (v # None /\ ~listed(v) /\ (v.v < lo.v \/ v.v > hi.v)) => ~flags[i]
                /\ (v # None /\ (listed(v) \/ (lo.v <= v.v /\ v.v <= hi.v))) => flags[i]

\* C4 witness: a column holding hi itself and a value above hi, flagged and not.
C4_Witness ==
    /\ result.op = "is_na" /\ ~IsNone(x.na_range) /\ Len(x.data) = 2
    /\ x.data[1] = Get(x.na_range)[2] /\ Get(result.value)[1]
    /\ x.data[2] # None /\ x.data[2].v > Get(x.na_range)[2].v /\ ~Get(result.value)[2]

\* The codes both operands label, with different strings.
ConflictingCodes ==
    {code \in Keys(x.labels) \cap Keys(template.labels) :
        x.labels[code] # template.labels[code]}

Warned == result.warnings # <<>>

\* C7: merging keeps the left label of every conflicting code, warns exactly
\* when a conflicting code exists, and a conflict never makes the merge or the
\* concatenation fail (a concatenation fails only with the TypeError of
\* operands of different kinds).
C7_LeftWinsAndWarns ==
    /\ result.op = "_combine_labels" =>
          /\ result.status = "ok"
          /\ \A code \in ConflictingCodes : Get(result.value)[code] = x.labels[code]
          /\ Warned <=> ConflictingCodes # {}
    /\ result.op = "concat" =>
          /\ Warned <=> ConflictingCodes # {}
          /\ result.status = "ok" =>
                \A code \in ConflictingCodes : Get(result.value).labels[code] = x.labels[code]
          /\ result.status = "raise" =>
                result.exc = "TypeError" /\ KindOf(x.data) # KindOf(template.data)

\* C7 witness: a concatenation of operands with a conflicting code succeeded
\* and warned.
C7_Witness ==
    /\ result.op = "concat" /\ result.status = "ok" /\ Warned
    /\ ConflictingCodes # {}

\* C8 as stated: the merge is the union of both dictionaries, right-only codes
\* keeping the right label, and the dictionary of a concatenation contains the
\* codes of every operand.
C8_MergeIsUnion ==
    /\ result.op = "_combine_labels" =>
          /\ Keys(Get(result.value)) = Keys(x.labels) \cup Keys(template.labels)
          /\ \A code \in Keys(template.labels) \ Keys(x.labels) :
                Get(result.value)[code] = template.labels[code]
    /\ (result.op = "concat" /\ result.status = "ok") =>
          Keys(x.labels) \cup Keys(template.labels) \subseteq Keys(Get(result.value).labels)

\* ------------------------------------------------------------------- C5

Cells(frame) == [j \in 1..Len(frame) |-> frame[j].vals]

\* The tag recorded for row i (1-based) of column name, if any.
RecordedTags(m, name, i) ==
    UNION {{spec.tags[k] : k \in {k2 \in 1..Len(spec.rows) : spec.rows[k2] = i - 1}} :
              spec \in {s \in Range(m.tagged_missings) : s.col = name}}

\* The extraction step: every tagged cell is null afterwards and is recorded
\* with its column, row and tag; nothing else is recorded or changed.
ExtractRecordsTags ==
    /\ Len(df') = Len(df)
    /\ \A j \in 1..Len(df) :
        /\ df'[j].name = df[j].name
        /\ Len(df'[j].vals) = Len(df[j].vals)
        /\ \A i \in 1..Len(df[j].vals) :
            LET old == df[j].vals[i] IN
            IF IsTaggedNA(old)
            THEN df'[j].vals[i] = None /\ RecordedTags(meta', df[j].name, i) = {old.v}
            ELSE df'[j].vals[i] = old /\ RecordedTags(meta', df[j].name, i) = {}

\* The hydration step: exactly the recorded cells hold their tag again, and
\* every other cell is as it was.
HydrateRestoresTags ==
    /\ Len(df') = Len(df)
    /\ \A j \in 1..Len(df) :
        /\ df'[j].name = df[j].name
        /\ Len(df'[j].vals) = Len(df[j].vals)
        /\ \A i \in 1..Len(df[j].vals) :
            LET tags == RecordedTags(meta, df[j].name, i) IN
            IF tags # {}
            THEN \E t \in tags : df'[j].vals[i] = TaggedNA(t)
            ELSE df'[j].vals[i] = df[j].vals[i]

\* C5: _extract_tagged_missings nulls and records every TaggedNA cell, and
\* _hydrate_tagged_na puts the same tag back at exactly the recorded cells and
\* leaves every other cell unchanged, so that an extract/hydrate cycle gives
\* back the cells it started from.
C5_TaggedFidelity ==
    [][/\ result'.op = "_extract_tagged_missings" =>
            /\ ExtractRecordsTags
            /\ Cells(_hydrate_tagged_na(df', meta')) = Cells(df)
       /\ result'.op = "_hydrate_tagged_na" => HydrateRestoresTags]_vars

\* ------------------------------------------------------------------- C9

\* The columns of the table that hold a text with an embedded NUL.
NulColumns ==
    SelectSeq(Columns(df), LAMBDA name :
        \E j \in 1..Len(df) :
            /\ df[j].name = name
            /\ \E i \in 1..Len(df[j].vals) :
                  df[j].vals[i].kind = "str" /\ NUL \in Range(df[j].vals[i].v))

HasNul == Len(NulColumns) > 0

NulMsg == "Strings containing embedded NUL (\\x00) are not supported"

NothingWritten == native_calls = <<>> /\ fs.target = "absent"

\* C9: every writer (write_dta, write_sav, write_xpt) rejects a table with an
\* embedded NUL in a text value before the native encoder is called and
\* before any byte reaches the target, and the NUL error names the columns.
C9_EveryWriterRejectsNul ==
    (result.op \in {"write_dta", "write_sav", "write_xpt"} /\ HasNul) =>
        /\ result.status = "raise"
        /\ NothingWritten
        /\ result.msg = NulMsg => Get(result.value) = NulColumns

\* ------------------------------------------------------------------- C10

DtaCalled == result.op = "write_dta"

PathUsable == kwargs.path \in {"str", "file"}

VersionSupported == kwargs.version \in 8..15 \/ kwargs.version >= 113

HumanVersion == version_human(kwargs.version)

BadNames ==
    \E j \in 1..Len(df) :
        \/ Len(df[j].name) > 32
        \/ HumanVersion < 14 /\ ~_STATA_NAME_RE(df[j].name)

BadFileLabel == ~IsNone(kwargs.file_label) /\ Len(Get(kwargs.file_label)) > 80

BadValueLabelKeys ==
    /\ ~IsNone(kwargs.value_labels)
    /\ \E var \in DOMAIN Get(kwargs.value_labels) :
          \E k \in DOMAIN Get(kwargs.value_labels)[var] : k.kind # "num"

BadStrl ==
    \/ kwargs.strl_threshold < 0
    \/ kwargs.strl_threshold > 2045
    \/ /\ HumanVersion < 13
       /\ \E j \in 1..Len(df) :
             /\ df[j].dtype = "Utf8"
             /\ \E i \in 1..Len(df[j].vals) :
                   df[j].vals[i].kind = "str" /\ Len(df[j].vals[i].v) > 244

BadInfPolicy ==
    \/ kwargs.na_policy \notin {"nan", "error", "keep"}
    \/ /\ kwargs.na_policy = "error"
       /\ \E j \in 1..Len(df) : \E i \in 1..Len(df[j].vals) : df[j].vals[i].kind = "inf"

\* The check a write_dta error message belongs to.
RejectedBy ==
    IF result.status # "raise" THEN "none"
    ELSE IF result.msg \in {"Variables must have Stata-compatible names (<=32). Too long",
                            "Variables for Stata <14 must match ^[A-Za-z_][A-Za-z0-9_]*$"}
    THEN "names"
    ELSE IF result.msg = "file_label must be 80 characters or fewer." THEN "file_label"
    ELSE IF result.msg = "Value labels must use integer codes; offending keys" THEN "value_labels"
    ELSE IF result.msg \in {"strl_threshold must be within [0, 2045]",
                            "Column contains strings of length, but Stata < 13 has no strL support."}
    THEN "strl"
    ELSE IF result.msg = NulMsg THEN "nul"
    ELSE "other"

\* C10: write_dta rejects before the native writer is invoked and before any
\* output byte is written, and of several violated checks the error is that
\* of the first in the order names, file label, value-label keys, strL, NUL.
C10_RejectsBeforeNativeInOrder ==
    DtaCalled =>
        /\ result.status = "raise" => NothingWritten
        /\ (~PathUsable \/ ~VersionSupported \/ BadNames \/ BadFileLabel \/ BadValueLabelKeys
               \/ BadStrl \/ HasNul \/ BadInfPolicy) => result.status = "raise"
        /\ result.status = "ok" => Len(native_calls) = 1 /\ fs.target = "data"
        /\ (PathUsable /\ VersionSupported) =>
              RejectedBy = IF BadNames THEN "names"
                           ELSE IF BadFileLabel THEN "file_label"
                           ELSE IF BadValueLabelKeys THEN "value_labels"
                           ELSE IF BadStrl THEN "strl"
                           ELSE IF HasNul THEN "nul"
                           ELSE IF BadInfPolicy THEN "other"
                           ELSE "none"

\* A call that violates the file-label, strL and NUL checks at once is
\* rejected for its file label, with nothing written.
C10_Witness ==
    /\ DtaCalled
    /\ PathUsable /\ VersionSupported
    /\ ~BadNames /\ BadFileLabel /\ BadStrl /\ HasNul
    /\ RejectedBy = "file_label"
    /\ NothingWritten

\* ------------------------------------------------------------------- C6

\* The rule the metadata declares for a column: its user_missing entries.
DeclaredRules(m, name) ==
    {Get(var.user_missing) : var \in {v \in Range(m.vars) : v.name = name /\ ~IsNone(v.user_missing)}}

\* A cell value is in the declared discrete set or inside the declared
\* inclusive range of its column.
DeclaredMissing(m, name, v) ==
    /\ v # None
    /\ \E rule \in DeclaredRules(m, name) :
          \/ v \in Range(rule.values)
          \/ Len(rule.range) = 2 /\ rule.range[1].v <= v.v /\ v.v <= rule.range[2].v

\* C6: _hydrate_user_missing in convert mode nulls exactly the cells that are
\* in their column's discrete set or inside its inclusive range; in preserve
\* mode it changes no cell and reports each column's rule in
\* meta['user_missing'].
C6_ConvertNullsPreserveReports ==
    [][result'.op = "_hydrate_user_missing" =>
        /\ result'.status = "ok"
        /\ Len(df') = Len(df)
        /\ IF kwargs'.user_na
           THEN /\ Cells(df') = Cells(df)
                /\ \A j \in 1..Len(df) : \A rule \in DeclaredRules(meta, df[j].name) :
                      \E k \in 1..Len(meta'.user_missing) :
                          /\ meta'.user_missing[k].col = df[j].name
                          /\ meta'.user_missing[k].values = rule.values
                          /\ meta'.user_missing[k].range = rule.range
           ELSE \A j \in 1..Len(df) : \A i \in 1..Len(df[j].vals) :
                   df'[j].vals[i] = IF DeclaredMissing(meta, df[j].name, df[j].vals[i])
                                    THEN None ELSE df[j].vals[i]]_vars

\* ---------------------------------------------------------------- C11, C12

Readers ==
    {"read_sas", "read_xpt", "read_sas_arrow", "read_dta", "read_stata_arrow",
     "read_sav", "read_por"}

ZeroRowsRequested == _normalize_n_max(x) = Ok(PyInt(0))

ReturnedEmpty ==
    /\ result.status = "ok"
    /\ Get(result.value)[1] = <<>>
    /\ Get(result.value)[2] =
           [file_label |-> None, vars |-> <<>>, value_labels |-> <<>>,
            user_missing |-> <<>>, n_rows |-> 0]

\* C11: every reader called with a row limit that normalizes to 0 returns the
\* empty table and the zeroed metadata, has made no native decoder call and
\* has neither read nor copied its input.
C11_ZeroRowsWithoutDecoding ==
    (result.op \in Readers /\ ZeroRowsRequested) =>
        /\ ReturnedEmpty
        /\ native_calls = <<>>
        /\ fs = NothingRead

Rejected == Raise("TypeError", "")

\* The mapping the row-limit contract states for one value.
StatedLimit(e) ==
    IF e = None THEN Ok(None)
    ELSE IF e.kind \in {"int", "npint", "bool", "list"}
    THEN IF e.v < 0 THEN Ok(None) ELSE Ok(PyInt(e.v))
    ELSE Rejected

\* C12: _normalize_n_max gives unlimited for None and for a negative integer,
\* the integer itself when it is not negative, 1/0 for True/False, and for a
\* list or tuple of exactly one element the result for that element; every
\* other input is rejected with TypeError and nothing is returned.
C12_NormalizeAsStated ==
    result.op = "_normalize_n_max" =>
        LET stated == IF Len(x.items) = 1 THEN StatedLimit(x.items[1]) ELSE Rejected IN
        /\ result.status = stated.status
        /\ result.value = stated.value
        /\ result.status = "raise" => result.exc = "TypeError"

\* ---------------------------------------------------------------- C17

\* C17: when a reader call has returned or raised, every temporary file it
\* made to hand a file-like input to a path-based native call is deleted,
\* whether the call succeeded, rejected an argument or failed to decode.
C17_NoTemporaryFileSurvives ==
    result.op \in Readers => (fs.tmp = "absent" /\ fs.catalog_tmp = "absent")

\* ---------------------------------------------------------------- C13..C16

RangeGiven == ~IsNone(x.na_range)

WellFormedRange ==
    /\ Len(Get(x.na_range)) = 2
    /\ Get(x.na_range)[1] # None
    /\ Get(x.na_range)[2] # None
    /\ Get(x.na_range)[1].v < Get(x.na_range)[2].v

\* C13: a user-missing range is validated by the constructor: a LabelledSPSS
\* is created only for a range of exactly two non-null bounds with lo < hi;
\* lo == hi, lo > hi, a null bound or another number of bounds makes the
\* constructor raise, and no column is returned.
C13_RangeValidatedAtConstruction ==
    (result.op = "labelled_spss" /\ RangeGiven /\ ~WellFormedRange) =>
        (result.status = "raise" /\ result.value = <<>>)

C13_Witness ==
    /\ result.op = "labelled_spss"
    /\ x.na_range = Some(<<Num(2), Num(2)>>)
    /\ result.status = "raise"
    /\ result.msg = "na_range must be in ascending order"

HasKind(k) == \E i \in 1..Len(x.data) : x.data[i].kind = k

BadData == HasKind("bool") \/ (HasKind("num") /\ HasKind("str"))

ColumnKind == IF HasKind("num") THEN "num" ELSE IF HasKind("str") THEN "str" ELSE "none"

RuleValues ==
    (IF IsNone(x.na_values) THEN {} ELSE Range(Get(x.na_values)))
        \cup (IF IsNone(x.na_range) THEN {} ELSE Range(Get(x.na_range)))

Codes == IF IsNone(x.labels) THEN {} ELSE Keys(Get(x.labels))

\* The rule has no null among its values and, if it has a range, two bounds.
RuleHasItsParts ==
    /\ None \notin RuleValues
    /\ RangeGiven => Len(Get(x.na_range)) = 2

\* C14: constructing a labelled column raises TypeError whenever the data is
\* boolean or mixes numbers and text, and whenever a discrete missing value,
\* a range bound or a dictionary code is of another kind than the column; a
\* rule and a dictionary of the column's own kind are accepted, for numeric
\* and for text columns.
C14_KindMismatchIsTypeError ==
    result.op = "labelled_spss" =>
        /\ BadData => (result.status = "raise" /\ result.exc = "TypeError")
        /\ (~BadData /\ ColumnKind # "none" /\ RuleHasItsParts
              /\ \E v \in RuleValues \cup Codes : v.kind # ColumnKind)
             => (result.status = "raise" /\ result.exc = "TypeError")
        /\ (~BadData /\ ColumnKind # "none"
              /\ (\A v \in RuleValues \cup Codes : v.kind = ColumnKind)
              /\ (RangeGiven => WellFormedRange))
             => result.status = "ok"

\* The number of missing criteria a rule declares: its discrete values and
\* its range.
Criteria ==
    (IF IsNone(x.na_values) THEN 0 ELSE Cardinality(Range(Get(x.na_values))))
        + (IF RangeGiven THEN 1 ELSE 0)

\* C15: a user-missing rule declares at most three criteria, discrete values
\* and range counted together; the constructor rejects a rule with more.
C15_AtMostThreeCriteria ==
    (result.op = "labelled_spss" /\ Criteria > 3) => result.status = "raise"

DuplicateStrings ==
    \E k1, k2 \in Codes : k1 # k2 /\ Get(x.labels)[k1] = Get(x.labels)[k2]

\* C16: a dictionary of the column's kind that gives two different codes the
\* same label string is accepted, with a duplicate-label warning.
C16_DuplicateStringsOnlyWarn ==
    (result.op = "labelled" /\ ~BadData /\ ColumnKind # "none" /\ DuplicateStrings
        /\ \A k \in Codes : k.kind = ColumnKind)
      => (result.status = "ok" /\ Len(result.warnings) > 0)

\* ---------------------------------------------------------------- C18..C20

IsFloat(c) == c.dtype \in {"Float32", "Float64"}

PolicyApplied(p) ==
    /\ result.op = "_apply_inf_policy"
    /\ kwargs.na_policy = p

\* C18: under 'nan', _apply_inf_policy returns the table with exactly the
\* +infinity and -infinity cells of its float columns replaced by null; NaN,
\* null and finite cells and every non-float column are as they were.  Under
\* 'keep' it returns the table unchanged.
C18_NanPolicyNullsOnlyInfinities ==
    /\ PolicyApplied("keep") => result.value = <<df>>
    /\ PolicyApplied("nan") =>
         /\ result.status = "ok"
         /\ LET out == Get(result.value) IN
            /\ Len(out) = Len(df)
            /\ \A j \in 1..Len(df) :
                 /\ out[j].name = df[j].name
                 /\ out[j].dtype = df[j].dtype
                 /\ Len(out[j].vals) = Len(df[j].vals)
                 /\ \A i \in 1..Len(df[j].vals) :
                      out[j].vals[i] =
                          IF IsFloat(df[j]) /\ df[j].vals[i] \in {Inf, NegInf}
                          THEN None ELSE df[j].vals[i]

C18_Witness ==
    /\ PolicyApplied("nan")
    /\ Len(df) > 1
    /\ df[1].dtype = "Float64" /\ df[1].vals[1] = NegInf /\ df[1].vals[2] = NaN
    /\ df[2].dtype = "Object" /\ df[2].vals[1] = Inf
    /\ Get(result.value)[1].vals[1] = None
    /\ Get(result.value)[1].vals[2] = NaN
    /\ Get(result.value)[2].vals[1] = Inf

NonFinitePresent ==
    \E j \in 1..Len(df) :
        /\ IsFloat(df[j])
        /\ \E i \in 1..Len(df[j].vals) : df[j].vals[i] \in {Inf, NegInf, NaN}

\* C19: with na_policy 'error' write_dta rejects a table that has +infinity,
\* -infinity or NaN in a float column, and otherwise hands the float columns
\* on as they are; a policy other than keep, error and nan is rejected
\* whatever the table holds.
C19_ErrorPolicyRejectsNonFinite ==
    DtaCalled =>
        /\ (kwargs.na_policy = "error" /\ NonFinitePresent) => result.status = "raise"
        /\ (kwargs.na_policy = "error" /\ result.status = "ok") =>
              \A j \in 1..Len(df) :
                  IsFloat(df[j]) => native_calls[1].frame[j].vals = df[j].vals
        /\ kwargs.na_policy \notin {"keep", "error", "nan"} => result.status = "raise"

StatedVersions == 8..15 \cup 113..119

StatedFormat ==
    IF kwargs.version >= 113 THEN kwargs.version
    ELSE IF kwargs.version = 15 THEN 119
    ELSE IF kwargs.version = 14 THEN 118
    ELSE IF kwargs.version = 13 THEN 117
    ELSE IF kwargs.version = 12 THEN 115
    ELSE IF kwargs.version \in {10, 11} THEN 114
    ELSE 113

\* C20: write_dta accepts exactly the versions 8 to 15 and 113 to 119 and
\* writes the format 15->119, 14->118, 13->117, 12->115, 11 and 10->114,
\* 9 and 8->113; any other version is rejected before anything is validated
\* or written.
C20_ExactlyTheStatedVersions ==
    (DtaCalled /\ PathUsable) =>
        /\ kwargs.version \notin StatedVersions =>
              /\ result.status = "raise"
              /\ result.msg = "Unsupported Stata version (use 8-15)"
              /\ NothingWritten
        /\ (kwargs.version \in StatedVersions /\ result.status = "ok") =>
              native_calls[1].version = StatedFormat
        /\ kwargs.version \in StatedVersions =>
              result.msg # "Unsupported Stata version (use 8-15)"

\* ---------------------------------------------------------------- C21, C22

\* Targets without long-string (strL) support: human versions below 13 and
\* internal formats below 117.
NoStrlSupport == kwargs.version \in 8..12 \cup 113..116

LongText ==
    \E j \in 1..Len(df) :
        /\ df[j].dtype = "Utf8"
        /\ \E i \in 1..Len(df[j].vals) : df[j].vals[i].kind = "str" /\ Len(df[j].vals[i].v) > 244

StrlLengthMsg == "Column contains strings of length, but Stata < 13 has no strL support."

\* C21: write_dta rejects a strl_threshold outside 0..2045 for every target
\* version; for a target without strL support it rejects every table with a
\* text value longer than 244 bytes; for a target with strL support it
\* rejects no text for its length.
C21_StrlPolicy ==
    (DtaCalled /\ PathUsable /\ kwargs.version \in StatedVersions) =>
        /\ kwargs.strl_threshold \notin 0..2045 => result.status = "raise"
        /\ (NoStrlSupport /\ LongText) => result.status = "raise"
        /\ ~NoStrlSupport => result.msg # StrlLengthMsg

Letter(ch) == ch \in {"a", "b", "o", "t", "x", "y", "e'", "A", "B", "O", "T", "X", "Y", "E'"}

Digit(ch) == ch \in {"1", "9"}

\* The name with every letter in lower case.
Lowered(name) ==
    [i \in 1..Len(name) |->
        IF name[i] = "A" THEN "a" ELSE IF name[i] = "B" THEN "b" ELSE IF name[i] = "O" THEN "o"
        ELSE IF name[i] = "T" THEN "t" ELSE IF name[i] = "X" THEN "x"
        ELSE IF name[i] = "Y" THEN "y" ELSE IF name[i] = "E'" THEN "e'" ELSE name[i]]

ReservedLowered ==
    {<<"a", "l", "l">>, <<"a", "n", "d">>, <<"b", "y">>, <<"e", "q">>, <<"g", "e">>,
     <<"g", "t">>, <<"l", "e">>, <<"l", "t">>, <<"n", "e">>, <<"n", "o", "t">>,
     <<"o", "r">>, <<"t", "o">>, <<"w", "i", "t", "h">>}

Utf8Bytes(name) ==
    Len(name) + Cardinality({i \in 1..Len(name) : name[i] \in {"e'", "E'"}})

AcceptableSavName(name) ==
    /\ name # <<>>
    /\ Utf8Bytes(name) <= 64
    /\ Letter(name[1])
    /\ \A i \in 2..Len(name) : Letter(name[i]) \/ Digit(name[i]) \/ name[i] = "_"
    /\ Lowered(name) \notin ReservedLowered

\* C22: write_sav accepts a table if and only if every column name is not
\* empty, has at most 64 UTF-8 bytes, starts with a letter, goes on with
\* letters, digits and underscores only, is no reserved word in any letter
\* case, and no two names are equal ignoring case; otherwise it raises before
\* the native writer is called.
C22_SavNamesAcceptedIff ==
    (result.op = "write_sav" /\ kwargs.compress \in {"byte", "none", "zsav"}) =>
        /\ result.status = "ok" <=>
              /\ \A j \in 1..Len(df) : AcceptableSavName(df[j].name)
              /\ \A i, j \in 1..Len(df) : i # j => Lowered(df[i].name) # Lowered(df[j].name)
        /\ result.status = "raise" => NothingWritten

C22_Witness ==
    /\ result.op = "write_sav"
    /\ Len(df) = 2
    /\ df[1].name = <<"a">> /\ df[2].name = <<"A">>
    /\ result.status = "raise"
    /\ result.msg = "SPSS does not allow duplicate variable names (case-insensitive)"
    /\ native_calls = <<>>

\* --------------------------------------------------------------------- C23

\* The user_missing records that declare a rule for the column name.
RulesOf(m, name) ==
    {k \in 1..Len(m.user_missing) :
        spec_col(m.user_missing[k], <<"col", "name", "column", "var">>) = name}

\* The number n is declared missing for the column name: it is one of the
\* discrete codes, given as an int or as a float, or lies in the range.
DeclaredCode(m, name, n) ==
    \E k \in RulesOf(m, name) :
        LET um == m.user_missing[k] IN
        \/ ~IsNone(um.na_values) /\ \E i \in 1..Len(Get(um.na_values)) : Get(um.na_values)[i].v = n
        \/ ~IsNone(um.na_range) /\ Get(um.na_range)[1].v <= n /\ n <= Get(um.na_range)[2].v

\* The columns of the metadata that reference the label set set_name.
ReferencedBy(m, set_name) ==
    {m.vars[j].name : j \in {j \in 1..Len(m.vars) : m.vars[j].label_set = set_name}}

\* C23: zap_missing_with_meta succeeds, nulls exactly the cells that match
\* their column's declared rule (discrete codes, inclusive range), removes
\* from every referenced label set the entry of each code that a referencing
\* column declares missing, whether the code is an int or a float, keeps the
\* other entries, and leaves the rest of the metadata as it was.
C23_NoLabelForNulledCode ==
    result.op = "zap_missing_with_meta" =>
        /\ result.status = "ok"
        /\ LET out == Get(result.value)[1]
               meta_out == Get(result.value)[2] IN
           /\ \A j \in 1..Len(df) : \A i \in 1..Len(df[j].vals) :
                 out[j].vals[i] =
                     IF df[j].vals[i] # None /\ DeclaredCode(meta, df[j].name, df[j].vals[i].v)
                     THEN None ELSE df[j].vals[i]
           /\ Len(meta_out.value_labels) = Len(meta.value_labels)
           /\ \A s \in 1..Len(meta.value_labels) :
                 LET set_name == meta.value_labels[s].set_name
                     mapping == meta.value_labels[s].mapping IN
                 /\ meta_out.value_labels[s].set_name = set_name
                 /\ \A key \in DOMAIN mapping :
                       key \in DOMAIN meta_out.value_labels[s].mapping
                           <=> ~\E name \in ReferencedBy(meta, set_name) :
                                   DeclaredCode(meta, name, Get(_num(key)))
           /\ meta_out.vars = meta.vars
           /\ meta_out.user_missing = meta.user_missing

\* --------------------------------------------------------------------- C24

\* The metadata a zap call returned.
ZapReturned == IF kwargs.form = "meta" THEN Get(result.value) ELSE Get(result.value)[2]

\* out differs from m at most in the top-level key top_key and in the key
\* var_key of each variable entry, which are present in out.
OnlyOwnFields(out, m, var_key, top_key) ==
    /\ DOMAIN out = DOMAIN m \cup {top_key}
    /\ \A k \in DOMAIN m \ {"vars", top_key} : out[k] = m[k]
    /\ Len(out.vars) = Len(m.vars)
    /\ \A j \in 1..Len(m.vars) :
          /\ DOMAIN out.vars[j] = DOMAIN m.vars[j] \cup {var_key}
          /\ \A k \in DOMAIN m.vars[j] \ {var_key} : out.vars[j][k] = m.vars[j][k]

\* What zap_label is said to do.
LabelsStripped(out, m) ==
    /\ OnlyOwnFields(out, m, "label", "file_label")
    /\ out.file_label = None
    /\ \A j \in 1..Len(out.vars) : out.vars[j].label = None

\* What zap_labels is said to do.
LabelSetsStripped(out, m) ==
    /\ OnlyOwnFields(out, m, "label_set", "value_labels")
    /\ out.value_labels = <<>>
    /\ \A j \in 1..Len(out.vars) : out.vars[j].label_set = None

\* What zap_widths does: display_width is removed from every variable entry.
WidthsStripped(out, m) ==
    /\ DOMAIN out = DOMAIN m
    /\ \A k \in DOMAIN m \ {"vars"} : out[k] = m[k]
    /\ Len(out.vars) = Len(m.vars)
    /\ \A j \in 1..Len(m.vars) :
          /\ DOMAIN out.vars[j] = DOMAIN m.vars[j] \ {"display_width"}
          /\ \A k \in DOMAIN out.vars[j] : out.vars[j][k] = m.vars[j][k]

\* What zap_labels(df, meta) does: one entry per table column, in column
\* order, taken from the last variable of that name (a fresh entry if there
\* is none) with label_set None and the keys label and fmt present.
LabelSetsStrippedAligned(out, m, frame) ==
    /\ DOMAIN out = DOMAIN m \cup {"vars", "value_labels"}
    /\ \A k \in DOMAIN m \ {"vars", "value_labels"} : out[k] = m[k]
    /\ out.value_labels = <<>>
    /\ Len(out.vars) = Len(frame)
    /\ \A j \in 1..Len(frame) :
          LET named == {i \in 1..Len(m.vars) : m.vars[i].name = frame[j].name}
              given == IF named = {} THEN EmptyDict
                       ELSE m.vars[CHOOSE i \in named : \A i2 \in named : i2 <= i] IN
          /\ DOMAIN out.vars[j] = DOMAIN given \cup {"name", "label", "fmt", "label_set"}
          /\ out.vars[j].name = frame[j].name
          /\ out.vars[j].label_set = None
          /\ out.vars[j].label = var_get(given, "label")
          /\ out.vars[j].fmt = var_get(given, "fmt")
          /\ \A k \in DOMAIN given \ {"label_set"} : out.vars[j][k] = given[k]

\* The table is passed along unchanged, and a second application changes
\* nothing.
TablePassedAndIdempotent ==
    /\ result.status = "ok"
    /\ kwargs.form = "df" => Get(result.value)[1] = df
    /\ result.op = "zap_label" =>
          Get(zap_label(df, ZapReturned, kwargs.form).value) = Get(result.value)
    /\ result.op = "zap_labels" =>
          Get(zap_labels(df, ZapReturned, kwargs.form).value) = Get(result.value)
    /\ result.op = "zap_widths" =>
          Get(zap_widths(df, ZapReturned, kwargs.form).value) = Get(result.value)

C25_WritersLeaveArgumentsAlone ==
    [][result'.op \in {"write_dta", "write_sav"} /\ result'.status = "ok" =>
        /\ Get(result'.value) = df
        /\ df' = df
        /\ meta' = meta
        /\ \A j \in 1..Len(df) : df[j].dtype = "Categorical" =>
              /\ native_calls'[Len(native_calls')].frame[j].dtype = "Float64"
              /\ native_calls'[Len(native_calls')].frame[j].vals = categorical_codes(df[j].vals)
              /\ \E k \in 1..Len(Get(native_calls'[Len(native_calls')].value_labels)) :
                    Get(native_calls'[Len(native_calls')].value_labels)[k].col = df[j].name]_vars

\* --------------------------------------------------------------------- C26

\* C26: slicing a valid Labelled or LabelledSPSS column, numeric or text,
\* succeeds for every slice, also one that selects nothing or only nulls,
\* and gives a column of the same class with the selected elements in order
\* and the labels, na_values, na_range and variable label of the original.
C26_SliceKeepsAttributes ==
    result.op = "__getitem__" =>
        /\ result.status = "ok"
        /\ LET got == Get(result.value)
               first == kwargs.start + 1
               last == IF kwargs.stop < Len(x.data) THEN kwargs.stop ELSE Len(x.data) IN
           /\ got.cls = x.cls
           /\ Len(got.data) = (IF last < first THEN 0 ELSE last - first + 1)
           /\ \A i \in 1..Len(got.data) : got.data[i] = x.data[kwargs.start + i]
           /\ got.labels = x.labels
           /\ got.na_values = x.na_values
           /\ got.na_range = x.na_range
           /\ got.label = x.label

\* --------------------------------------------------------------------- C27

\* The rule (na_values, na_range) of operand i; a plain list as first operand
\* is made a column without a rule.
OperandRule(vectors, i) ==
    IF vectors[i].cls = "LabelledSPSS" THEN <<vectors[i].na_values, vectors[i].na_range>>
    ELSE <<NoneOpt, NoneOpt>>

\* Every LabelledSPSS operand has the rule of the first operand.
RulesShared(vectors) ==
    \A i \in 1..Len(vectors) :
        vectors[i].cls = "LabelledSPSS" => OperandRule(vectors, i) = OperandRule(vectors, 1)

VarX == meta.vars[CHOOSE j \in 1..Len(meta.vars) : meta.vars[j].name = <<"x">>]

\* x has a value-label set and a well-formed rule: a range, if any, has
\* lo < hi.
LabelledWithRule ==
    /\ ~IsNone(VarX.label_set)
    /\ ~IsNone(VarX.user_missing)
    /\ Len(Get(VarX.user_missing).range) = 2 =>
          Get(VarX.user_missing).range[1].v < Get(VarX.user_missing).range[2].v

\* C28: in preserve mode _hydrate_user_missing builds the LabelledSPSS column
\* of a numeric column with a label set and a well-formed rule without error,
\* with the label set's text keys converted to numbers, whatever the cells
\* are: also when the first row is null and when there are no rows.
C28_PreserveBuildsLabelledColumn ==
    (result.op = "_hydrate_user_missing" /\ kwargs.user_na /\ LabelledWithRule) =>
        /\ result.status = "ok"
        /\ <<"x">> \in DOMAIN meta.labelled_columns
        /\ meta.labelled_columns[<<"x">>].data = df[1].vals
        /\ \A k \in Keys(meta.labelled_columns[<<"x">>].labels) : _is_numeric_scalar(k)

\* --------------------------------------------------------------------- C29

\* C29: zap_missing applied to the table and metadata of a read in preserve
\* mode gives the table that the read in convert mode gives: the records in
\* meta['user_missing'] are rules that zap_missing applies.
C29_ZapAfterPreserveIsConvert ==
    result.op = "zap_missing" =>
        Get(result.value) = _hydrate_user_missing(df, meta, FALSE).frame

\* --------------------------------------------------------------------- C30

\* What the conversion op gives for the single non-null element v.
AtomicOf(op, v) ==
    LET one == [x EXCEPT !.data = <<v>>] IN
    IF op = "to_int" THEN Get(to_int(one).value)[1]
    ELSE IF op = "to_float" THEN Get(to_float(one).value)[1]
    ELSE Get(to_str(one).value)[1]

\* The non-null elements a column of the kind of x may hold.
ElementsOfKind ==
    IF _is_numeric_seq(x.data) THEN {Num(i) : i \in 0..MaxNum}
    ELSE {Str(i) : i \in 0..MaxStr}

\* C30: to_int, to_float and to_str keep the length and order of the data,
\* and what they give for a null element is a marker that no non-null
\* element of the column can give.
C30_NullStaysApart ==
    (result.op \in {"to_int", "to_float", "to_str"} /\ result.status = "ok") =>
        LET out == Get(result.value) IN
        /\ Len(out) = Len(x.data)
        /\ \A i \in 1..Len(out) :
              IF x.data[i] # None THEN out[i] = AtomicOf(result.op, x.data[i])
              ELSE \A v \in ElementsOfKind : out[i] # AtomicOf(result.op, v)

====
